---------------------------- MODULE Spec2Model ----------------------------
(***************************************************************************)
(* ONVIF AI: the alert throttle (AlertService), the poll-mode subscription *)
(* manager and the push receiver (EventService).                           *)
(*                                                                         *)
(* The specifications share the variables:                                 *)
(*   SpecThrottle  AlertService.sendAlert / shouldSendAlert under a clock  *)
(*   SpecGate      AlertService enabled or disabled, with or without URL   *)
(*   SpecDispatch  AlertService.sendWebhook and the end of sendAlert       *)
(*   SpecPoll      EventService with method = 'polling'                    *)
(*   SpecPollFair  SpecPoll with fair timer ticks and calls that settle    *)
(*   SpecPush      EventService with method = 'push'                       *)
(*   SpecStart     EventService.start() with either method                 *)
(*   SpecClassify  extractEventType and determineSeverity                  *)
(*   SpecIds       the ids of the events created                           *)
(*   SpecApp, SpecAppThrottle  ONVIFApp: events handed to the AlertService *)
(***************************************************************************)
EXTENDS Integers, Sequences, FiniteSets, TLC

VARIABLES
    \* ---- AlertService (alert.service.ts) ----
    now,                \* Date.now(), in ms
    alertConfig,        \* AlertService.config (fixed after construction)
    isEnabled,          \* AlertService.isEnabled
    throttleMap,        \* AlertService.throttleMap : type -> ThrottleRecord
    evalLog,            \* history: per type, the shouldSendAlert evaluations
                        \* since the records were last cleared
    sending,            \* sendAlert calls inside sendWebhook: for each, the results
                        \* of its attempts so far, the delays it took between
                        \* them (ms) and what it awaits
    alertCounter,       \* AlertService.alertCounter
    lastSend,           \* history: the sendAlert call that ended last
    alertsSent,         \* history: the alertSent events emitted
    \* ---- EventService (event.service.ts) ----
    config,             \* EventService.config (fixed after construction)
    isRunning,          \* EventService.isRunning
    pullTimer,          \* EventService.pullTimer /= null
    liveTimers,         \* setInterval timers created and not cleared
    eventCounter,       \* EventService.eventCounter
    retryCount,         \* EventService.retryCount
    subscriptionActive, \* EventService.subscriptionActive
    starting,           \* start() calls awaiting createPullPointSubscription
    pulling,            \* pollForEvents cycles awaiting pullMessages
    recreating,         \* pollForEvents cycles awaiting the recreate call
    consecutiveFailures,\* history: failed poll cycles since the last success
                        \* or the last created subscription
    lastOp,             \* history: the operation that made the last step
    httpServer,         \* EventService.httpServer: "null", "created", "listening", "closing"
    pushPhase,          \* what a start() in flight awaits: "none", "listen", "subscribe"
    reading,            \* accepted requests whose body is still being read
    lastRequest,        \* history: the last request handed to handleHttpRequest
    lastResponse,       \* history: the last response written
    subscription,       \* OnvifService.subscription /= null
    lastUnsubscribe,    \* history: what the last cleanup() did about the
                        \* subscription ("none" before any cleanup)
    lastBatch,          \* history: the push body the last step handed to the
                        \* normalizer, the events parsed from it and how many
                        \* were emitted (NoBatch when the step handed none)
    emitLog,            \* history: what the last delivery loop did with the
                        \* events of its batch, in order: normalize, count,
                        \* emit 'event', emit the category (emptied by the
                        \* push-mode steps that handle no batch)
    \* ---- ONVIFApp (index.ts) ----
    wired,              \* ONVIFApp's handlers are registered on the EventService
    handling,           \* handleEvent calls awaiting getDeviceInformation
    \* ---- classification of one event (extractEventType, determineSeverity) ----
    topic,              \* the topic string handed to extractEventType
    processedType,      \* ProcessedEvent.type (NoType before it is set)
    payload,            \* the AlertPayload built last (NoPayload before)
    issued              \* history: the id and the path (push or poll) of every
                        \* ProcessedEvent created, in order of creation

alertVars == <<now, alertConfig, isEnabled, throttleMap, evalLog>>

pollVars == <<config, isRunning, pullTimer, liveTimers, eventCounter, retryCount,
              subscriptionActive, starting, pulling, recreating,
              consecutiveFailures, lastOp>>

pushVars == <<httpServer, pushPhase, reading, lastRequest, lastResponse, lastBatch,
              emitLog>>

gatewayVars == <<subscription, lastUnsubscribe>>

eventVars == <<pollVars, pushVars, gatewayVars>>

sendVars == <<sending, alertCounter, lastSend, alertsSent>>

classVars == <<topic, processedType, payload, issued>>

appVars == <<wired, handling>>

\* the variables outside the alert throttle and the EventService
restVars == <<classVars, sendVars, appVars>>

vars == <<alertVars, pollVars, pushVars, gatewayVars, restVars>>

-----------------------------------------------------------------------------
(* Bounds of the model *)

\* the clock runs from 0 to MaxTicks seconds
MaxTicks == 6
\* shouldSendAlert evaluations recorded between two clears
MaxEvals == 6

\* interval timers alive, or being created by a start() in flight, at once
MaxLiveTimers == 2
\* poll cycles in flight at once
MaxInFlight == 2
\* events one pullMessages call returns
MaxBatch == 2
\* events counted before the model stops delivering
MaxEventCount == 3
\* largest polling.maxRetries tried
MaxMaxRetries == 3

\* accepted requests being read at once
MaxRequests == 2
\* notification blocks in one push body
MaxBlocks == 3

\* fragments a topic string is put together from
MaxTopicParts == 3

\* events whose ids are recorded
MaxIssued == 3

\* sendAlert calls inside sendWebhook at once
MaxSending == 2
\* alerts counted as sent
MaxAlertCount == 2
\* largest config.retryAttempts tried
MaxRetryAttempts == 3

MaxClock == MaxTicks * 1000
\* the clock advances in whole seconds
ClockSteps == {1000}

\* ProcessedEvent.type values offered to the throttle
EventTypes == {"motionalarm", "peopledetection"}

-----------------------------------------------------------------------------
(* AlertService: configuration *)

\* loadConfig() defaults of alerts.throttling
DefaultThrottling ==
    [enabled |-> TRUE, windowMs |-> 60000, maxAlertsPerWindow |-> 5, debounceMs |-> 5000]

\* two small windows, so that a window rollover happens within MaxClock
SmallThrottlings ==
    { [enabled |-> TRUE, windowMs |-> 3000, maxAlertsPerWindow |-> 2, debounceMs |-> 1000],
      [enabled |-> TRUE, windowMs |-> 3000, maxAlertsPerWindow |-> 2, debounceMs |-> 2000] }

\* loadConfig() default of alerts.retryDelay (ALERTS_RETRY_DELAY), in ms
DefaultRetryDelay == 1000
\* the retry delays the dispatcher is run with
RetryDelays == {500, DefaultRetryDelay}

\* the throttle is run with retryAttempts = 0: sendWebhook then makes no call
\* and sendAlert ends, with alertFailed, in the step that admitted the event
AlertConfigs ==
    { [enabled |-> TRUE, webhookUrl |-> "https://hook", throttling |-> t,
       retryAttempts |-> 0, retryDelay |-> DefaultRetryDelay] :
        t \in {DefaultThrottling} \cup SmallThrottlings }

\* the dispatcher is run with the throttle off, or on with a small window
DispatchConfigs ==
    { [enabled |-> TRUE, webhookUrl |-> "https://hook", throttling |-> t,
       retryAttempts |-> n, retryDelay |-> d] :
        t \in { [DefaultThrottling EXCEPT !.enabled = FALSE],
                 [enabled |-> TRUE, windowMs |-> 3000, maxAlertsPerWindow |-> 2,
                  debounceMs |-> 1000] },
        n \in 1..MaxRetryAttempts,
        d \in RetryDelays }

NoSend == [results |-> << >>, outcome |-> "none", rejected |-> FALSE]
\* a sendAlert call that returned before the throttle
SkippedSend == [results |-> << >>, outcome |-> "skipped", rejected |-> FALSE]

\* the gate is run with and without a webhook URL, enabled or not at
\* construction, a small window and two attempts
GateConfigs ==
    { [enabled |-> en, webhookUrl |-> url,
       throttling |-> [enabled |-> TRUE, windowMs |-> 3000, maxAlertsPerWindow |-> 2,
                       debounceMs |-> 1000],
       retryAttempts |-> 2, retryDelay |-> DefaultRetryDelay] :
        en \in BOOLEAN, url \in {"", "https://hook"} }

-----------------------------------------------------------------------------
(* AlertService.shouldSendAlert, as the code computes it *)

NoRecord == [absent |-> TRUE]

\* the record created for a type seen for the first time
NewThrottleRecord(t) == [count |-> 0, windowStart |-> t, lastEventTime |-> 0]

\* let record = this.throttleMap.get(eventType); if (!record) { ... }
GetOrCreateSharedRecord(map, eventType, t) ==
    IF \A e \in DOMAIN map : map[e] = NoRecord
    THEN NewThrottleRecord(t)
    ELSE map[CHOOSE e \in DOMAIN map : map[e] /= NoRecord]
GetOrCreateRecord(map, eventType, t) ==
    IF map[eventType] = NoRecord THEN NewThrottleRecord(t) ELSE map[eventType]

\* if (now - record.windowStart >= windowMs) { count = 0; windowStart = now }
WindowExpiredLate(rec, t, tc) == t - rec.windowStart > tc.windowMs
WindowExpired(rec, t, tc) == t - rec.windowStart >= tc.windowMs

ResetWindow(rec, t, tc) ==
    IF WindowExpired(rec, t, tc)
    THEN [rec EXCEPT !.count = 0, !.windowStart = t]
    ELSE rec

\* if (record.count >= maxAlertsPerWindow) return false
RateLimitedOff(rec, tc) == rec.count > tc.maxAlertsPerWindow
RateLimited(rec, tc) == rec.count >= tc.maxAlertsPerWindow

\* if (record.lastEventTime > 0 && now - record.lastEventTime < debounceMs) return false
DebouncedFromWindowStart(rec, t, tc) ==
    /\ rec.lastEventTime > 0
    /\ t - rec.windowStart < tc.debounceMs
Debounced(rec, t, tc) ==
    rec.lastEventTime > 0 /\ t - rec.lastEventTime < tc.debounceMs

\* the decision on the record as it stands after the window check
ThrottleDecisionDebounceFirst(rec, t, tc) ==
    IF Debounced(rec, t, tc) THEN "debounced"
    ELSE IF RateLimited(rec, tc) THEN "rate_limited"
    ELSE "admitted"
ThrottleDecision(rec, t, tc) ==
    IF RateLimited(rec, tc) THEN "rate_limited"
    ELSE IF Debounced(rec, t, tc) THEN "debounced"
    ELSE "admitted"

\* record.count++; record.lastEventTime = now   (only when admitted)
AdmitRecord(rec, t) == [rec EXCEPT !.count = @ + 1, !.lastEventTime = t]

\* the record stored in the map when shouldSendAlert returns
RecordAfterLostUpdate(map, eventType, t, tc) ==
    ResetWindow(GetOrCreateRecord(map, eventType, t), t, tc)
RecordAfter(map, eventType, t, tc) ==
    LET r == ResetWindow(GetOrCreateRecord(map, eventType, t), t, tc)
    IN  IF ThrottleDecision(r, t, tc) = "admitted" THEN AdmitRecord(r, t) ELSE r

\* what shouldSendAlert decides
DecisionFor(map, eventType, t, tc) ==
    ThrottleDecision(ResetWindow(GetOrCreateRecord(map, eventType, t), t, tc), t, tc)

-----------------------------------------------------------------------------
(* AlertService: actions *)

TotalEvals == Len(evalLog["motionalarm"]) + Len(evalLog["peopledetection"])

AlertInit ==
    /\ now = 0
    /\ alertConfig \in AlertConfigs
    /\ isEnabled = alertConfig.enabled
    /\ throttleMap = [e \in EventTypes |-> NoRecord]
    /\ evalLog = [e \in EventTypes |-> << >>]
    /\ sending = << >>
    /\ alertCounter = 0
    /\ alertsSent = 0
    /\ lastSend = NoSend

GateInit ==
    /\ now = 0
    /\ alertConfig \in GateConfigs
    /\ isEnabled = alertConfig.enabled
    /\ throttleMap = [e \in EventTypes |-> NoRecord]
    /\ evalLog = [e \in EventTypes |-> << >>]
    /\ sending = << >>
    /\ alertCounter = 0
    /\ alertsSent = 0
    /\ lastSend = NoSend

DispatchInit ==
    /\ now = 0
    /\ alertConfig \in DispatchConfigs
    /\ isEnabled = alertConfig.enabled
    /\ throttleMap = [e \in EventTypes |-> NoRecord]
    /\ evalLog = [e \in EventTypes |-> << >>]
    /\ sending = << >>
    /\ alertCounter = 0
    /\ alertsSent = 0
    /\ lastSend = NoSend

\* the clock advances
Tick ==
    /\ \E d \in ClockSteps :
         /\ now + d <= MaxClock
         /\ now' = now + d
    /\ UNCHANGED <<alertConfig, isEnabled, throttleMap, evalLog>>
    /\ UNCHANGED <<eventVars, restVars>>

\* AlertService.enable()
Enable ==
    /\ ~isEnabled
    /\ isEnabled' = TRUE
    /\ UNCHANGED <<now, alertConfig, throttleMap, evalLog>>
    /\ UNCHANGED <<eventVars, restVars>>

\* AlertService.disable()
Disable ==
    /\ isEnabled
    /\ isEnabled' = FALSE
    /\ UNCHANGED <<now, alertConfig, throttleMap, evalLog>>
    /\ UNCHANGED <<eventVars, restVars>>

\* sendWebhook's loop: for (attempt = 1; attempt <= retryAttempts; attempt++)
HasNextAttemptBelow(attempt) == attempt + 1 < alertConfig.retryAttempts
HasNextAttempt(attempt) == attempt + 1 <= alertConfig.retryAttempts

\* await this.delay(this.config.retryDelay) after failed attempt number attempt
RetryDelayGrowing(attempt) == alertConfig.retryDelay * attempt
RetryDelay(attempt) == alertConfig.retryDelay

RemoveAt(seq, i) == SubSeq(seq, 1, i - 1) \o SubSeq(seq, i + 1, Len(seq))

\* sendAlert's catch block logs and emits alertFailed (which has no listener
\* in the application); it does not rethrow, so the call resolves
CatchRethrows == TRUE
SendAlertRejects == FALSE

\* await this.sendWebhook(alertPayload); this.alertCounter++: the increment
\* is reached only when sendWebhook returned
AlertCounterAfterAny(outcome) == alertCounter + 1
AlertCounterAfter(outcome) == IF outcome = "sent" THEN alertCounter + 1 ELSE alertCounter

\* sendAlert past the throttle: createAlertPayload and the first fetch of
\* sendWebhook; with no attempt to make, sendWebhook throws at once
StartSend ==
    IF HasNextAttempt(0)
    THEN /\ Len(sending) < MaxSending
         /\ sending' = Append(sending, [results |-> << >>, phase |-> "fetch",
                                        delays |-> << >>])
         /\ UNCHANGED <<alertCounter, lastSend, alertsSent>>
    ELSE /\ lastSend' = [results |-> << >>, outcome |-> "failed",
                         rejected |-> SendAlertRejects]
         /\ alertCounter' = AlertCounterAfter("failed")
         /\ UNCHANGED <<sending, alertsSent>>

\* if (!this.isEnabled) return; if (!this.config.webhookUrl) return;
SkipsWithoutUrlOnly == alertConfig.webhookUrl = ""
SkipsAlert == ~isEnabled \/ alertConfig.webhookUrl = ""

\* AlertService.sendAlert(event), up to its first await
SendAlertCall(eventType) ==
    /\ TotalEvals < MaxEvals
    /\ IF SkipsAlert
       THEN /\ lastSend' = SkippedSend
            /\ UNCHANGED <<throttleMap, evalLog, sending, alertCounter, alertsSent>>
       ELSE IF ~alertConfig.throttling.enabled
       THEN /\ UNCHANGED <<throttleMap, evalLog>>
            /\ StartSend
       ELSE LET tc == alertConfig.throttling
            IN  /\ throttleMap' =
                     [throttleMap EXCEPT ![eventType] = RecordAfter(throttleMap, eventType, now, tc)]
                /\ evalLog' =
                     [evalLog EXCEPT ![eventType] =
                        Append(@, [time |-> now,
                                   decision |-> DecisionFor(throttleMap, eventType, now, tc)])]
                /\ IF DecisionFor(throttleMap, eventType, now, tc) = "admitted"
                   THEN StartSend
                   ELSE UNCHANGED sendVars
    /\ UNCHANGED <<now, alertConfig, isEnabled>>

\* sendAlert called on the AlertService directly
SendAlert(eventType) ==
    /\ SendAlertCall(eventType)
    /\ UNCHANGED <<eventVars, classVars, appVars>>

\* handleEvent(event) after its await of getDeviceInformation, which settles
\* either way (.catch(() => null)): sendAlert(event, deviceInfo)
HandleEventSendAlert(eventType) ==
    /\ handling > 0
    /\ handling' = handling - 1
    /\ UNCHANGED wired
    /\ SendAlertCall(eventType)
    /\ UNCHANGED <<eventVars, classVars>>

\* a fetch of sendWebhook gets a 2xx response: sendWebhook returns, sendAlert
\* counts the alert and emits alertSent
FetchOk(i) ==
    /\ i \in DOMAIN sending
    /\ sending[i].phase = "fetch"
    /\ alertCounter < MaxAlertCount
    /\ sending' = RemoveAt(sending, i)
    /\ alertCounter' = AlertCounterAfter("sent")
    /\ alertsSent' = alertsSent + 1
    /\ lastSend' = [results |-> Append(sending[i].results, "ok"), outcome |-> "sent",
                    rejected |-> FALSE]
    /\ UNCHANGED <<now, alertConfig, isEnabled, throttleMap, evalLog>>
    /\ UNCHANGED <<eventVars, classVars, appVars>>

\* a fetch of sendWebhook rejects, times out or gets a response that is not
\* ok: the loop waits retryDelay and goes on, or, after the last attempt,
\* sendWebhook throws and sendAlert emits alertFailed
FetchFail(i) ==
    /\ i \in DOMAIN sending
    /\ sending[i].phase = "fetch"
    /\ IF HasNextAttempt(Len(sending[i].results) + 1)
       THEN /\ sending' = [sending EXCEPT ![i] =
                              [results |-> Append(@.results, "fail"), phase |-> "delay",
                               delays |-> Append(@.delays,
                                                 RetryDelay(Len(@.results) + 1))]]
            /\ UNCHANGED <<lastSend, alertCounter>>
       ELSE /\ sending' = RemoveAt(sending, i)
            /\ lastSend' = [results |-> Append(sending[i].results, "fail"),
                            outcome |-> "failed", rejected |-> SendAlertRejects]
            /\ alertCounter' = AlertCounterAfter("failed")
    /\ UNCHANGED alertsSent
    /\ UNCHANGED <<now, alertConfig, isEnabled, throttleMap, evalLog>>
    /\ UNCHANGED <<eventVars, classVars, appVars>>

\* the retry delay of a sendWebhook loop ends: the next fetch is issued
DelayDone(i) ==
    /\ i \in DOMAIN sending
    /\ sending[i].phase = "delay"
    /\ sending' = [sending EXCEPT ![i].phase = "fetch"]
    /\ UNCHANGED <<alertCounter, lastSend, alertsSent>>
    /\ UNCHANGED <<now, alertConfig, isEnabled, throttleMap, evalLog>>
    /\ UNCHANGED <<eventVars, classVars, appVars>>

\* AlertService.clearThrottleRecords()
ClearThrottleRecords ==
    /\ \E e \in EventTypes : throttleMap[e] /= NoRecord
    /\ throttleMap' = [e \in EventTypes |-> NoRecord]
    /\ evalLog' = [e \in EventTypes |-> << >>]
    /\ UNCHANGED <<now, alertConfig, isEnabled>>
    /\ UNCHANGED <<eventVars, restVars>>

NextThrottle ==
    \/ Tick
    \/ Enable
    \/ Disable
    \/ \E e \in EventTypes : SendAlert(e)
    \/ ClearThrottleRecords

NextGate ==
    \/ Enable
    \/ Disable
    \/ \E e \in EventTypes : SendAlert(e)
    \/ \E i \in 1..MaxSending : FetchOk(i)
    \/ \E i \in 1..MaxSending : FetchFail(i)
    \/ \E i \in 1..MaxSending : DelayDone(i)
    \/ ClearThrottleRecords

NextDispatch ==
    \/ \E e \in EventTypes : SendAlert(e)
    \/ \E i \in 1..MaxSending : FetchOk(i)
    \/ \E i \in 1..MaxSending : FetchFail(i)
    \/ \E i \in 1..MaxSending : DelayDone(i)

-----------------------------------------------------------------------------
(* EventService: configuration *)

\* EventServiceConfig.polling, for every retryOnError and maxRetries tried
PollingSections ==
    [present : {TRUE}, retryOnError : BOOLEAN, maxRetries : 0..MaxMaxRetries]

\* loadConfig() defaults: retryOnError = true, maxRetries = 3
DefaultPolling == [present |-> TRUE, retryOnError |-> TRUE, maxRetries |-> 3]

\* strings that the code inspects are sequences of characters
EventsSlash == <<"/", "e", "v", "e", "n", "t", "s", "/">>
EndpointEvents == <<"/", "e", "v", "e", "n", "t", "s">>
EndpointOnvifEvents == <<"/", "o", "n", "v", "i", "f", "/", "e", "v", "e", "n", "t", "s">>

\* EventServiceConfig.push.httpServer.endpoint: the default '/events' and the
\* README's '/onvif/events'
PushSections == [present : {TRUE}, endpoint : {EndpointEvents, EndpointOnvifEvents}]

DefaultPush == [present |-> TRUE, endpoint |-> EndpointEvents]

PollConfigs ==
    { [method |-> "polling", polling |-> p, push |-> DefaultPush] : p \in PollingSections }

PushConfigs ==
    { [method |-> "push", polling |-> DefaultPolling, push |-> p] : p \in PushSections }

\* a configuration without the polling or without the push section
NoPolling == [present |-> FALSE, retryOnError |-> FALSE, maxRetries |-> 0]
NoPush == [present |-> FALSE, endpoint |-> << >>]

\* start() with either method and the method's section present or missing
StartConfigs ==
    { [method |-> "polling", polling |-> p, push |-> DefaultPush] :
        p \in {DefaultPolling, NoPolling} }
    \cup
    { [method |-> "push", polling |-> DefaultPolling, push |-> p] :
        p \in {DefaultPush, NoPush} }

\* startPushMethod: if (!this.config.push) throw ...; startPollingMethod:
\* if (!this.config.polling) throw ...
SectionNeverMissing(cfg) == FALSE
SectionMissing(cfg) ==
    IF cfg.method = "push" THEN ~cfg.push.present ELSE ~cfg.polling.present

NoRequest == [method |-> "", pathname |-> << >>]
NoResponse == [status |-> 0, parsed |-> 0, threw |-> FALSE, writeThrew |-> FALSE]
NoBatch == [body |-> << >>, events |-> << >>, emitted |-> 0, counted |-> 0, throwAt |-> 0]

\* the state of a constructed EventService
EventInit ==
    /\ isRunning = FALSE
    /\ pullTimer = FALSE
    /\ liveTimers = 0
    /\ eventCounter = 0
    /\ retryCount = 0
    /\ subscriptionActive = FALSE
    /\ starting = 0
    /\ pulling = 0
    /\ recreating = 0
    /\ consecutiveFailures = 0
    /\ lastOp = "new"
    /\ httpServer = "null"
    /\ pushPhase = "none"
    /\ reading = {}
    /\ lastRequest = NoRequest
    /\ lastResponse = NoResponse
    /\ lastBatch = NoBatch
    /\ emitLog = << >>
    /\ subscription = FALSE
    /\ lastUnsubscribe = "none"
    /\ handling = 0

\* an EventService that is constructed and never started
EventIdle ==
    /\ config = [method |-> "polling", polling |-> DefaultPolling, push |-> DefaultPush]
    /\ wired = FALSE
    /\ EventInit

\* an EventService on its own: whoever uses it registers the handlers
PushInit ==
    /\ config \in PushConfigs
    /\ wired = FALSE
    /\ EventInit

PollInit ==
    /\ config \in PollConfigs
    /\ wired = FALSE
    /\ EventInit

StartInit ==
    /\ config \in StartConfigs
    /\ wired = FALSE
    /\ EventInit

\* the EventService of a constructed ONVIFApp: setupEventHandlers has run
AppConfigs ==
    { [method |-> m, polling |-> DefaultPolling, push |-> DefaultPush] :
        m \in {"polling", "push"} }

AppEventInit ==
    /\ config \in AppConfigs
    /\ wired = TRUE
    /\ EventInit

\* ONVIFApp's onAnyEvent handler for k events: handleEvent(event) is called
\* without await and runs up to its await of getDeviceInformation; no
\* webhook call is made before emit returns
HandleEventAwaited(k) ==
    /\ UNCHANGED <<wired, handling, sending>>
    /\ alertCounter' = alertCounter + (IF wired /\ isEnabled THEN k ELSE 0)
    /\ alertsSent' = alertsSent + (IF wired /\ isEnabled THEN k ELSE 0)
    /\ lastSend' = IF wired /\ isEnabled /\ k > 0
                   THEN [results |-> <<"ok">>, outcome |-> "sent", rejected |-> FALSE]
                   ELSE lastSend
HandleEvent(k) ==
    /\ handling' = IF wired /\ isEnabled THEN handling + k ELSE handling
    /\ UNCHANGED wired
    /\ UNCHANGED sendVars

-----------------------------------------------------------------------------
(* EventService, polling: start() and stop() *)

\* OnvifService.unsubscribeFromEvents(): throws when the camera is not
\* connected, returns after a warning when OnvifService holds no subscription,
\* and otherwise calls camera.unsubscribe, which succeeds or fails
UnsubscribeOutcomes ==
    IF subscription THEN {"not_connected", "ok", "failed"}
                    ELSE {"not_connected", "no_subscription"}

\* the outcomes in which the unsubscribe call went to the Gateway
UnsubscribeCalled == {"ok", "failed"}

\* the end of cleanup() when there is no HTTP server: unsubscribeFromEvents
\* is awaited and what it throws is logged and swallowed
UnsubscribeFromEvents ==
    \E outcome \in UnsubscribeOutcomes :
        /\ lastUnsubscribe' = outcome
        /\ subscription' = (subscription /\ outcome /= "ok")

\* cleanup() in polling mode, where no HTTP server exists:
\* clearInterval(this.pullTimer); this.pullTimer = null; then the unsubscribe
Cleanup ==
    /\ pullTimer' = FALSE
    /\ liveTimers' = IF pullTimer THEN liveTimers - 1 ELSE liveTimers
    /\ UnsubscribeFromEvents

\* startEventPolling(): this.pullTimer = setInterval(...)
StartEventPolling ==
    /\ pullTimer' = TRUE
    /\ liveTimers' = liveTimers + 1

\* start() is called: returns at once when running, throws when the polling
\* section is missing, and otherwise awaits createPullPointSubscription
PollStart ==
    /\ config.method /= "push"
    /\ liveTimers + starting < MaxLiveTimers
    /\ IF isRunning
       THEN /\ lastOp' = "start_ignored"
            /\ UNCHANGED <<pullTimer, liveTimers, starting, gatewayVars>>
       ELSE IF SectionMissing(config)
       THEN /\ lastOp' = "start_rejected"
            /\ Cleanup
            /\ UNCHANGED starting
       ELSE /\ lastOp' = "start"
            /\ starting' = starting + 1
            /\ UNCHANGED <<pullTimer, liveTimers, gatewayVars>>
    /\ UNCHANGED <<config, isRunning, eventCounter, retryCount, subscriptionActive,
                   pulling, recreating, consecutiveFailures>>
    /\ UNCHANGED <<alertVars, pushVars, restVars>>

\* start(): the Gateway created the subscription; the timer is started and
\* the service runs
StartCreateOk ==
    /\ starting > 0
    /\ starting' = starting - 1
    /\ subscriptionActive' = TRUE
    /\ retryCount' = 0
    /\ consecutiveFailures' = 0
    /\ StartEventPolling
    /\ isRunning' = TRUE
    /\ lastOp' = "create_ok"
    /\ UNCHANGED <<config, eventCounter, pulling, recreating>>
    /\ UNCHANGED <<alertVars, pushVars, gatewayVars, restVars>>

\* start(): the Gateway refused the subscription. With retryOnError the error
\* is swallowed and the service runs with the subscription disabled; without
\* it start() cleans up and rejects
StartCreateFail ==
    /\ starting > 0
    /\ starting' = starting - 1
    /\ subscriptionActive' = FALSE
    /\ IF config.polling.retryOnError
       THEN /\ StartEventPolling
            /\ isRunning' = TRUE
            /\ lastOp' = "create_failed"
            /\ UNCHANGED gatewayVars
       ELSE /\ Cleanup
            /\ UNCHANGED isRunning
            /\ lastOp' = "start_rejected"
    /\ UNCHANGED <<config, eventCounter, retryCount, pulling, recreating,
                   consecutiveFailures>>
    /\ UNCHANGED <<alertVars, pushVars, restVars>>

\* stop() on a running service
PollStop ==
    /\ config.method /= "push"
    /\ isRunning
    /\ isRunning' = FALSE
    /\ Cleanup
    /\ lastOp' = "stop"
    /\ UNCHANGED <<config, eventCounter, retryCount, subscriptionActive, starting,
                   pulling, recreating, consecutiveFailures>>
    /\ UNCHANGED <<alertVars, pushVars, restVars>>

-----------------------------------------------------------------------------
(* EventService, polling: pollForEvents *)

\* retryOnError && retryCount <= maxRetries
MayRetryAlways(rc) == config.polling.retryOnError
MayRetryBelow(rc) == config.polling.retryOnError /\ rc < config.polling.maxRetries
MayRetry(rc) == config.polling.retryOnError /\ rc <= config.polling.maxRetries

\* retryCount >= maxRetries
MustRecreateEarly(rc) == rc + 1 >= config.polling.maxRetries
MustRecreate(rc) == rc >= config.polling.maxRetries

\* the retry count after a successful poll: this.retryCount = 0
RetryCountAfterSuccess(rc) == 0

\* the operations of the delivery loop on one event, up to the one that throws
\* ("none": nothing throws; a listener of 'event' throws before the category
\* is emitted, as ONVIFApp's own does on an Invalid Date; a listener of the
\* category, or the code after the two emits, throws when both were called)
LoopOps(threw) ==
    IF threw = "event" THEN <<"count", "event">> ELSE <<"count", "event", "category">>

Logged(i, ops) == [k \in DOMAIN ops |-> [event |-> i, op |-> ops[k]]]

\* pollForEvents: for (const event of events) { processPolledEvent;
\* eventCounter++; emit('event'); emit(type) }, left at event stop (0: never)
RECURSIVE PollLoop(_, _, _, _)
PollLoop(i, n, stop, threw) ==
    IF i > n THEN << >>
    ELSE IF i = stop THEN Logged(i, <<"normalize">> \o LoopOps(threw))
    ELSE Logged(i, <<"normalize">> \o LoopOps("none")) \o PollLoop(i + 1, n, stop, threw)

\* processEventNotification: parseEventXml builds every event first; then
\* for (const processedEvent of processedEvents) { eventCounter++;
\* emit('event'); emit(type); logger.info(... toISOString()) }
RECURSIVE PushLoop(_, _, _, _)
PushLoop(i, n, stop, threw) ==
    IF i > n THEN << >>
    ELSE IF i = stop THEN Logged(i, LoopOps(threw))
    ELSE Logged(i, LoopOps("none")) \o PushLoop(i + 1, n, stop, threw)

PushLog(n, stop, threw) ==
    [i \in 1..n |-> [event |-> i, op |-> "normalize"]] \o PushLoop(1, n, stop, threw)

\* where a handler can throw on an event
ThrowSites == {"event", "category"}

\* the catch block of pollForEvents
PollCatch ==
    IF isRunning /\ config.polling.present
    THEN /\ retryCount' = retryCount + 1
         /\ consecutiveFailures' = consecutiveFailures + 1
         /\ IF MayRetry(retryCount + 1)
            THEN IF MustRecreate(retryCount + 1)
                 THEN /\ recreating' = recreating + 1
                      /\ UNCHANGED subscriptionActive
                 ELSE UNCHANGED <<recreating, subscriptionActive>>
            ELSE /\ subscriptionActive' = FALSE
                 /\ UNCHANGED recreating
    ELSE UNCHANGED <<retryCount, consecutiveFailures, recreating, subscriptionActive>>

\* the interval timer fires: pollForEvents up to its pullMessages call
PollTick ==
    /\ liveTimers > 0
    /\ IF isRunning /\ config.polling.present /\ subscriptionActive
       THEN /\ pulling + recreating < MaxInFlight
            /\ pulling' = pulling + 1
       ELSE UNCHANGED pulling
    /\ lastOp' = "tick"
    /\ UNCHANGED <<config, isRunning, pullTimer, liveTimers, eventCounter, retryCount,
                   subscriptionActive, starting, recreating, consecutiveFailures>>
    /\ UNCHANGED <<alertVars, pushVars, gatewayVars, restVars>>

\* pullMessages returns n events; a handler throws at event throwAt (0: none)
PullOk(n, throwAt) ==
    /\ pulling > 0
    /\ pulling' = pulling - 1
    /\ LET delivered == IF throwAt = 0 THEN n ELSE throwAt
       IN  /\ eventCounter + delivered <= MaxEventCount
           /\ eventCounter' = eventCounter + delivered
    /\ IF throwAt = 0
       THEN /\ retryCount' = RetryCountAfterSuccess(retryCount)
            /\ consecutiveFailures' = 0
            /\ lastOp' = "pull_ok"
            /\ UNCHANGED <<recreating, subscriptionActive>>
       ELSE /\ PollCatch
            /\ lastOp' = "handler_threw"
    /\ \E threw \in ThrowSites : emitLog' = PollLoop(1, n, throwAt, threw)
    /\ HandleEvent(IF throwAt = 0 THEN n ELSE throwAt - 1)
    /\ UNCHANGED <<config, isRunning, pullTimer, liveTimers, starting>>
    /\ UNCHANGED <<httpServer, pushPhase, reading, lastRequest, lastResponse, lastBatch>>
    /\ UNCHANGED <<alertVars, gatewayVars, classVars>>

\* pullMessages rejects
PullFail ==
    /\ pulling > 0
    /\ pulling' = pulling - 1
    /\ PollCatch
    /\ lastOp' = "pull_failed"
    /\ UNCHANGED <<config, isRunning, pullTimer, liveTimers, eventCounter, starting>>
    /\ UNCHANGED <<alertVars, pushVars, gatewayVars, restVars>>

\* the recreate call of a poll cycle succeeds
RecreateOk ==
    /\ recreating > 0
    /\ recreating' = recreating - 1
    /\ subscriptionActive' = TRUE
    /\ retryCount' = 0
    /\ consecutiveFailures' = 0
    /\ lastOp' = "recreate_ok"
    /\ UNCHANGED <<config, isRunning, pullTimer, liveTimers, eventCounter, starting, pulling>>
    /\ UNCHANGED <<alertVars, pushVars, gatewayVars, restVars>>

\* the recreate call of a poll cycle fails
RecreateFail ==
    /\ recreating > 0
    /\ recreating' = recreating - 1
    /\ subscriptionActive' = FALSE
    /\ lastOp' = "recreate_failed"
    /\ UNCHANGED <<config, isRunning, pullTimer, liveTimers, eventCounter, retryCount,
                   starting, pulling, consecutiveFailures>>
    /\ UNCHANGED <<alertVars, pushVars, gatewayVars, restVars>>

NextPoll ==
    \/ PollStart
    \/ StartCreateOk
    \/ StartCreateFail
    \/ PollStop
    \/ PollTick
    \/ \E n \in 0..MaxBatch : \E throwAt \in 0..n : PullOk(n, throwAt)
    \/ PullFail
    \/ RecreateOk
    \/ RecreateFail

-----------------------------------------------------------------------------
(* EventService, push: start(), stop() and the HTTP receiver *)

pollOnlyVars == <<pullTimer, liveTimers, retryCount, subscriptionActive, starting,
                  pulling, recreating, consecutiveFailures>>

\* String.prototype.startsWith
StartsWith(str, prefix) ==
    /\ Len(str) >= Len(prefix)
    /\ SubSeq(str, 1, Len(prefix)) = prefix

\* requests tried: method and parsed pathname (<< >>: no pathname)
Methods == {"GET", "POST"}

Pathnames ==
    { << >>,
      <<"/">>,
      <<"/", "e", "v", "e", "n", "t", "s">>,
      <<"/", "e", "v", "e", "n", "t", "s", "/", "1">>,
      <<"/", "o", "n", "v", "i", "f", "/", "e", "v", "e", "n", "t", "s", "/", "1">> }

Requests == [method : Methods, pathname : Pathnames]

\* req.method === 'POST' && pathname && pathname.startsWith('/events/')
Accepts(req) ==
    /\ req.method = "POST"
    /\ req.pathname /= << >>
    /\ StartsWith(req.pathname, EventsSlash)

\* a push body is a row of blocks, each written as the pieces of text the
\* normalizer's regular expressions look for:
\*   "ok"        <wsnt:NotificationMessage> Topic UtcTime="(valid)" </wsnt:NotificationMessage>
\*   "notime"    the same without a UtcTime attribute
\*   "badtime"   the same with a UtcTime that new Date() cannot read
\*   "unclosed"  the same as "ok" with the closing tag missing
BlockKinds == {"ok", "notime", "badtime", "unclosed"}

BlockTokens(kind) ==
    CASE kind = "ok"       -> <<"open", "topic", "utc", "close">>
      [] kind = "notime"   -> <<"open", "topic", "close">>
      [] kind = "badtime"  -> <<"open", "topic", "badutc", "close">>
      [] kind = "unclosed" -> <<"open", "topic", "utc">>

Bodies ==
    UNION { [1..n -> BlockKinds] : n \in 0..MaxBlocks }

\* the text of a body: its pieces in order, each tagged with its block
RECURSIVE BodyTokens(_, _)
BodyTokens(body, i) ==
    IF i > Len(body) THEN << >>
    ELSE [k \in 1..Len(BlockTokens(body[i])) |->
             [tok |-> BlockTokens(body[i])[k], block |-> i]]
         \o BodyTokens(body, i + 1)

SetMin(S) == CHOOSE i \in S : \A j \in S : i <= j

\* xmlBody.match(/<wsnt:NotificationMessage>[\s\S]*?<\/wsnt:NotificationMessage>/g):
\* from each opening tag to the nearest closing tag after it, left to right
RECURSIVE NotificationMessages(_, _)
NotificationMessages(tokens, from) ==
    LET opens == { i \in from..Len(tokens) : tokens[i].tok = "open" }
    IN  IF opens = {} THEN << >>
        ELSE LET i == SetMin(opens)
                 closes == { j \in i..Len(tokens) : tokens[j].tok = "close" }
             IN  IF closes = {} THEN << >>
                 ELSE <<SubSeq(tokens, i, SetMin(closes))>>
                      \o NotificationMessages(tokens, SetMin(closes) + 1)

\* the ProcessedEvent built from one matched message: the blocks its text
\* spans, and the Date made of the first UtcTime in it ("utc", or "invalid"
\* when new Date() cannot read it) or of the time of receipt when there is none
ParsedEvent(messageXml) ==
    LET utcs == { k \in DOMAIN messageXml : messageXml[k].tok \in {"utc", "badutc"} }
    IN  [blocks |-> { messageXml[k].block : k \in DOMAIN messageXml },
         timestamp |-> IF utcs = {} THEN "receipt"
                       ELSE IF messageXml[SetMin(utcs)].tok = "utc" THEN "utc"
                       ELSE "invalid"]

\* parseEventXml(xmlBody)
ParseEventXml(body) ==
    LET messages == NotificationMessages(BodyTokens(body, 1), 1)
    IN  [i \in DOMAIN messages |-> ParsedEvent(messages[i])]

\* parseEventXml over the bodies tried
ParsedBodies == [body \in Bodies |-> ParseEventXml(body)]

\* processEventNotification: the event at which the loop is left by an
\* exception (0: at none): a handler throws at event throwAt, or
\* timestamp.toISOString() throws on an Invalid Date
StopsAt(events, throwAt) ==
    LET bad == { i \in DOMAIN events : events[i].timestamp = "invalid" \/ i = throwAt }
    IN  IF bad = {} THEN 0 ELSE SetMin(bad)

\* the events counted (and handed to emit) before the loop is left
EventsCounted(events, throwAt) ==
    IF StopsAt(events, throwAt) = 0 THEN Len(events) ELSE StopsAt(events, throwAt)

\* whether processEventNotification throws to handleHttpRequest: its own
\* try/catch swallows every exception of the loop
NotificationRethrows(events, throwAt) == StopsAt(events, throwAt) /= 0
NotificationThrows(events, throwAt) == FALSE

\* the status handleHttpRequest answers with once the body is read
EndStatus(events, throwAt, writeThrows) ==
    IF NotificationThrows(events, throwAt) \/ writeThrows THEN 500 ELSE 200

\* cleanup() in push mode: with a server it returns the promise of
\* httpServer.close(callback), so the unsubscribe below it is not reached;
\* without one it goes on to the unsubscribe
CloseServer ==
    IF httpServer = "null"
    THEN UNCHANGED httpServer /\ UnsubscribeFromEvents
    ELSE /\ httpServer' = "closing"
         /\ lastUnsubscribe' = "not_reached"
         /\ UNCHANGED subscription

\* start() is called: returns at once when running, throws when the push
\* section is missing, and otherwise creates the server and awaits listen.
\* (Overlapping start() calls are modelled in polling mode only.)
PushStart ==
    /\ config.method = "push"
    /\ pushPhase = "none"
    /\ httpServer = "null"
    /\ IF isRunning
       THEN /\ lastOp' = "start_ignored"
            /\ UNCHANGED <<httpServer, pushPhase, gatewayVars>>
       ELSE IF SectionMissing(config)
       THEN /\ lastOp' = "start_rejected"
            /\ CloseServer
            /\ UNCHANGED pushPhase
       ELSE /\ lastOp' = "start"
            /\ httpServer' = "created"
            /\ pushPhase' = "listen"
            /\ UNCHANGED gatewayVars
    /\ UNCHANGED <<config, isRunning, eventCounter, pollOnlyVars>>
    /\ UNCHANGED <<reading, lastRequest, lastResponse>>
    /\ lastBatch' = NoBatch
    /\ emitLog' = << >>
    /\ UNCHANGED <<alertVars, restVars>>

\* the server listens; start() goes on to the subscribe call
SubscribeBeforeListening ==
    /\ pushPhase = "listen"
    /\ httpServer' = "created"
    /\ pushPhase' = "subscribe"
    /\ lastOp' = "listen_ok"
    /\ UNCHANGED <<config, isRunning, eventCounter, pollOnlyVars>>
    /\ UNCHANGED <<reading, lastRequest, lastResponse>>
    /\ lastBatch' = NoBatch
    /\ emitLog' = << >>
    /\ UNCHANGED <<alertVars, gatewayVars, restVars>>
ListenOk ==
    /\ pushPhase = "listen"
    /\ httpServer' = "listening"
    /\ pushPhase' = "subscribe"
    /\ lastOp' = "listen_ok"
    /\ UNCHANGED <<config, isRunning, eventCounter, pollOnlyVars>>
    /\ UNCHANGED <<reading, lastRequest, lastResponse>>
    /\ lastBatch' = NoBatch
    /\ emitLog' = << >>
    /\ UNCHANGED <<alertVars, gatewayVars, restVars>>

\* the server reports an error before it listens; start() cleans up and rejects
ListenFail ==
    /\ pushPhase = "listen"
    /\ CloseServer
    /\ pushPhase' = "none"
    /\ lastOp' = "start_rejected"
    /\ UNCHANGED <<config, isRunning, eventCounter, pollOnlyVars>>
    /\ UNCHANGED <<reading, lastRequest, lastResponse>>
    /\ lastBatch' = NoBatch
    /\ emitLog' = << >>
    /\ UNCHANGED <<alertVars, restVars>>

\* the Gateway accepts the subscription: OnvifService keeps it
\* (createEventSubscription) and the service runs
SubscribeOk ==
    /\ pushPhase = "subscribe"
    /\ pushPhase' = "none"
    /\ subscription' = TRUE
    /\ UNCHANGED lastUnsubscribe
    /\ isRunning' = TRUE
    /\ lastOp' = "subscribe_ok"
    /\ UNCHANGED <<config, eventCounter, pollOnlyVars>>
    /\ UNCHANGED <<httpServer, reading, lastRequest, lastResponse>>
    /\ lastBatch' = NoBatch
    /\ emitLog' = << >>
    /\ UNCHANGED <<alertVars, restVars>>

\* the Gateway refuses the subscription; start() cleans up and rejects
SubscribeFail ==
    /\ pushPhase = "subscribe"
    /\ pushPhase' = "none"
    /\ CloseServer
    /\ lastOp' = "start_rejected"
    /\ UNCHANGED <<config, isRunning, eventCounter, pollOnlyVars>>
    /\ UNCHANGED <<reading, lastRequest, lastResponse>>
    /\ lastBatch' = NoBatch
    /\ emitLog' = << >>
    /\ UNCHANGED <<alertVars, restVars>>

\* stop() on a running service
PushStop ==
    /\ config.method = "push"
    /\ isRunning
    /\ isRunning' = FALSE
    /\ CloseServer
    /\ lastOp' = "stop"
    /\ UNCHANGED <<config, eventCounter, pollOnlyVars>>
    /\ UNCHANGED <<pushPhase, reading, lastRequest, lastResponse>>
    /\ lastBatch' = NoBatch
    /\ emitLog' = << >>
    /\ UNCHANGED <<alertVars, restVars>>

\* the callback of httpServer.close(): this.httpServer = null
CloseDone ==
    /\ httpServer = "closing"
    /\ reading = {}
    /\ httpServer' = "null"
    /\ lastOp' = "closed"
    /\ UNCHANGED <<config, isRunning, eventCounter, pollOnlyVars>>
    /\ UNCHANGED <<pushPhase, reading, lastRequest, lastResponse>>
    /\ lastBatch' = NoBatch
    /\ emitLog' = << >>
    /\ UNCHANGED <<alertVars, gatewayVars, restVars>>

\* handleHttpRequest(req, res): 404 at once, or the body is read
HttpRequest(req) ==
    /\ httpServer = "listening"
    /\ req \notin reading
    /\ lastRequest' = req
    /\ IF Accepts(req)
       THEN /\ Cardinality(reading) < MaxRequests
            /\ reading' = reading \cup {req}
            /\ UNCHANGED lastResponse
       ELSE /\ lastResponse' = [NoResponse EXCEPT !.status = 404]
            /\ UNCHANGED reading
    /\ lastOp' = "http_request"
    /\ UNCHANGED <<config, isRunning, eventCounter, pollOnlyVars>>
    /\ UNCHANGED <<httpServer, pushPhase>>
    /\ lastBatch' = NoBatch
    /\ emitLog' = << >>
    /\ UNCHANGED <<alertVars, gatewayVars, restVars>>

\* req.on('end'): processEventNotification(body), then the response
RequestEnd(req, body, throwAt, writeThrows) ==
    /\ req \in reading
    /\ \E events \in {ParsedBodies[body]} :
         \E counted \in {EventsCounted(events, throwAt)} :
            /\ throwAt <= Len(events)
            /\ eventCounter + counted <= MaxEventCount
            /\ eventCounter' = eventCounter + counted
            /\ lastResponse' = [status |-> EndStatus(events, throwAt, writeThrows),
                                parsed |-> Len(events),
                                threw |-> StopsAt(events, throwAt) /= 0,
                                writeThrew |-> writeThrows]
            /\ lastBatch' = [body |-> body, events |-> events,
                             emitted |-> counted, counted |-> counted,
                             throwAt |-> throwAt]
            /\ \E threw \in ThrowSites :
                  emitLog' = PushLog(Len(events), StopsAt(events, throwAt),
                                     IF StopsAt(events, throwAt) = throwAt
                                     THEN threw
                                     ELSE IF wired THEN "event" ELSE "after")
            /\ HandleEvent(IF StopsAt(events, throwAt) = 0 THEN counted
                                                            ELSE counted - 1)
    /\ reading' = reading \ {req}
    /\ lastRequest' = req
    /\ lastOp' = "request_end"
    /\ UNCHANGED <<config, isRunning, pollOnlyVars>>
    /\ UNCHANGED <<httpServer, pushPhase>>
    /\ UNCHANGED <<alertVars, gatewayVars, classVars>>

NextPush ==
    \/ PushStart
    \/ ListenOk
    \/ ListenFail
    \/ SubscribeOk
    \/ SubscribeFail
    \/ PushStop
    \/ CloseDone
    \/ \E req \in Requests : HttpRequest(req)
    \/ \E req \in reading : \E body \in Bodies : \E throwAt \in 0..Len(body) :
         \E writeThrows \in BOOLEAN : RequestEnd(req, body, throwAt, writeThrows)

-----------------------------------------------------------------------------
(* Classification: EventService.extractEventType and                        *)
(* AlertService.determineSeverity, on strings as sequences of characters    *)

UpperCase == <<"A", "B", "C", "D", "E", "F", "G", "H", "I", "J", "K", "L", "M", "N", "O", "P", "Q", "R", "S", "T", "U", "V", "W", "X", "Y", "Z">>
LowerCase == <<"a", "b", "c", "d", "e", "f", "g", "h", "i", "j", "k", "l", "m", "n", "o", "p", "q", "r", "s", "t", "u", "v", "w", "x", "y", "z">>
Digits == {"0", "1", "2", "3", "4", "5", "6", "7", "8", "9"}

Range(f) == { f[i] : i \in DOMAIN f }

\* String.prototype.toLowerCase
LowerChar(c) ==
    IF c \in Range(UpperCase)
    THEN LowerCase[CHOOSE i \in DOMAIN UpperCase : UpperCase[i] = c]
    ELSE c

ToLowerCase(str) == [i \in DOMAIN str |-> LowerChar(str[i])]

\* String.prototype.includes
Includes(str, sub) ==
    \E i \in 1..(Len(str) - Len(sub) + 1) : SubSeq(str, i, i + Len(sub) - 1) = sub

\* topic.split('/'): the number of parts and the last of them
PartsLength(str) == Cardinality({ i \in DOMAIN str : str[i] = "/" }) + 1

LastPart(str) ==
    LET slashes == { i \in DOMAIN str : str[i] = "/" }
    IN  IF slashes = {} THEN str
        ELSE SubSeq(str, (CHOOSE i \in slashes : \A j \in slashes : j <= i) + 1, Len(str))

\* str.replace(/[^a-z0-9]/g, '_'): every character outside [a-z0-9] becomes '_'
\* (ReplaceSpecialRuns: every run of them becomes one '_')
ReplaceSpecialRuns(str) ==
    LET kept == { i \in DOMAIN str :
                    \/ str[i] \in Range(LowerCase) \cup Digits
                    \/ i = 1
                    \/ str[i - 1] \in Range(LowerCase) \cup Digits }
        idx == [k \in 1..Cardinality(kept) |->
                   CHOOSE i \in kept : Cardinality({ j \in kept : j < i }) = k - 1]
    IN  [k \in DOMAIN idx |->
            IF str[idx[k]] \in Range(LowerCase) \cup Digits THEN str[idx[k]] ELSE "_"]
ReplaceSpecial(str) ==
    [i \in DOMAIN str |-> IF str[i] \in Range(LowerCase) \cup Digits THEN str[i] ELSE "_"]

Str_unknown == <<"u", "n", "k", "n", "o", "w", "n">>
Str_people == <<"p", "e", "o", "p", "l", "e">>
Str_human == <<"h", "u", "m", "a", "n">>
Str_person == <<"p", "e", "r", "s", "o", "n">>
Str_object == <<"o", "b", "j", "e", "c", "t">>
Str_analytics == <<"a", "n", "a", "l", "y", "t", "i", "c", "s">>
Str_peopledetection == <<"p", "e", "o", "p", "l", "e", "d", "e", "t", "e", "c", "t", "i", "o", "n">>
Str_objectdetection == <<"o", "b", "j", "e", "c", "t", "d", "e", "t", "e", "c", "t", "i", "o", "n">>
Str_tamper == <<"t", "a", "m", "p", "e", "r">>
Str_tampering == <<"t", "a", "m", "p", "e", "r", "i", "n", "g">>
Str_motionalarm == <<"m", "o", "t", "i", "o", "n", "a", "l", "a", "r", "m">>
Str_motion == <<"m", "o", "t", "i", "o", "n">>
Str_device == <<"d", "e", "v", "i", "c", "e">>
Str_test == <<"t", "e", "s", "t">>

\* extractEventType(topic)
ExtractEventType(str) ==
    IF str = << >> THEN Str_unknown
    ELSE IF PartsLength(str) >= 2
    THEN LET lastPart == ToLowerCase(LastPart(str))
         IN  IF \/ Includes(lastPart, Str_people)
                \/ Includes(lastPart, Str_human)
                \/ Includes(lastPart, Str_person)
             THEN Str_peopledetection
             ELSE IF Includes(lastPart, Str_object) /\ Includes(ToLowerCase(str), Str_analytics)
             THEN Str_objectdetection
             ELSE ReplaceSpecial(lastPart)
    ELSE ReplaceSpecial(ToLowerCase(str))

\* determineSeverity(eventType): a switch on eventType.toLowerCase()
\* (DetermineSeverityExact: the same switch on eventType as it is)
DetermineSeverityExact(type) ==
    LET t == type
    IN  CASE t = Str_peopledetection -> "high"
          [] t \in {Str_tamper, Str_tampering} -> "critical"
          [] t \in {Str_motionalarm, Str_motion} -> "medium"
          [] t = Str_objectdetection -> "medium"
          [] t = Str_device -> "low"
          [] OTHER -> "medium"
DetermineSeverity(type) ==
    LET t == ToLowerCase(type)
    IN  CASE t = Str_peopledetection -> "high"
          [] t \in {Str_tamper, Str_tampering} -> "critical"
          [] t \in {Str_motionalarm, Str_motion} -> "medium"
          [] t = Str_objectdetection -> "medium"
          [] t = Str_device -> "low"
          [] OTHER -> "medium"

\* the topics tried: up to MaxTopicParts of these fragments in a row
TopicFragments ==
    { <<"/">>,
      <<"t", "n", "s", "1", ":">>,
      <<"A", "n", "a", "l", "y", "t", "i", "c", "s">>,
      <<"P", "e", "o", "p", "l", "e">>,
      <<"H", "u", "m", "a", "n">>,
      <<"p", "e", "r", "s", "o", "n">>,
      <<"O", "b", "j", "e", "c", "t">>,
      <<"M", "o", "t", "i", "o", "n">>,
      <<"-">> }

RECURSIVE TopicsOf(_)
TopicsOf(n) ==
    IF n = 0 THEN { << >> }
    ELSE TopicsOf(n - 1) \cup { t \o f : t \in TopicsOf(n - 1), f \in TopicFragments }

Topics == TopicsOf(MaxTopicParts)

\* event types that reach sendAlert in events built by its caller
SuppliedTypes ==
    { <<"T", "a", "m", "p", "e", "r">>,
      <<"T", "A", "M", "P", "E", "R", "I", "N", "G">>,
      <<"d", "e", "v", "i", "c", "e">>,
      <<"M", "o", "t", "i", "o", "n">>,
      <<"m", "o", "t", "i", "o", "n", "a", "l", "a", "r", "m">>,
      <<"P", "e", "o", "p", "l", "e", "D", "e", "t", "e", "c", "t", "i", "o", "n">>,
      <<"t", "e", "s", "t">> }

NoType == <<"?">>
NoPayload == [eventType |-> NoType, severity |-> "none", made |-> "none"]

ClassIdle ==
    /\ topic = << >>
    /\ processedType = NoType
    /\ payload = NoPayload
    /\ issued = << >>

ClassInit ==
    /\ topic \in Topics
    /\ processedType = NoType
    /\ payload = NoPayload
    /\ issued = << >>

\* the normalizer sets the type of the event it builds
SetEventType ==
    /\ processedType = NoType
    /\ processedType' = ExtractEventType(topic)
    /\ UNCHANGED <<topic, payload, issued>>
    /\ UNCHANGED <<alertVars, eventVars, sendVars, appVars>>

\* createAlertPayload(event) for the normalized event or a caller's event
CreateAlertPayload(type) ==
    /\ payload = NoPayload
    /\ type /= NoType
    /\ payload' = [eventType |-> type, severity |-> DetermineSeverity(type),
                   made |-> "createAlertPayload"]
    /\ UNCHANGED <<topic, processedType, issued>>
    /\ UNCHANGED <<alertVars, eventVars, sendVars, appVars>>

\* testWebhook(): the fixed test payload
TestWebhook ==
    /\ payload = NoPayload
    /\ payload' = [eventType |-> Str_test, severity |-> "low", made |-> "testWebhook"]
    /\ UNCHANGED <<topic, processedType, issued>>
    /\ UNCHANGED <<alertVars, eventVars, sendVars, appVars>>

NextClassify ==
    \/ SetEventType
    \/ CreateAlertPayload(processedType)
    \/ \E type \in SuppliedTypes : CreateAlertPayload(type)
    \/ TestWebhook

-----------------------------------------------------------------------------
(* The normalizer: event ids *)

\* values of Math.random().toString(36).substr(2, 9): up to nine characters
\* of the base-36 fraction, none when Math.random() returns 0
RandomSuffixes == {"", "k3", "x9f2m07qa"}

\* `${Date.now()}-${Math.random().toString(36).substr(2, 9)}`
EventId(t, suffix) == <<t, "-", suffix>>

\* processPolledEvent(event) builds an event of a pulled batch
ProcessPolledEvent(suffix) ==
    /\ Len(issued) < MaxIssued
    /\ issued' = Append(issued, [id |-> EventId(now, suffix), path |-> "poll"])
    /\ UNCHANGED <<topic, processedType, payload>>
    /\ UNCHANGED <<alertVars, eventVars, sendVars, appVars>>

\* parseEventXml(xmlBody) builds the event of one notification block
ParseEventXmlMessage(suffix) ==
    /\ Len(issued) < MaxIssued
    /\ issued' = Append(issued, [id |-> EventId(now, suffix), path |-> "push"])
    /\ UNCHANGED <<topic, processedType, payload>>
    /\ UNCHANGED <<alertVars, eventVars, sendVars, appVars>>

NextIds ==
    \/ Tick
    \/ \E suffix \in RandomSuffixes : ProcessPolledEvent(suffix)
    \/ \E suffix \in RandomSuffixes : ParseEventXmlMessage(suffix)

-----------------------------------------------------------------------------
(* ONVIFApp: the EventService with the application's handlers and the        *)
(* AlertService behind them                                                  *)

\* requests the Gateway posts to the callback URL
AppRequests == { req \in Requests : Accepts(req) }

\* the alert configuration of the application run: throttle off, two attempts
AppAlertInit ==
    /\ now = 0
    /\ alertConfig = [enabled |-> TRUE, webhookUrl |-> "https://hook",
                      throttling |-> [DefaultThrottling EXCEPT !.enabled = FALSE],
                      retryAttempts |-> 2, retryDelay |-> DefaultRetryDelay]
    /\ isEnabled = TRUE
    /\ throttleMap = [e \in EventTypes |-> NoRecord]
    /\ evalLog = [e \in EventTypes |-> << >>]
    /\ sending = << >>
    /\ alertCounter = 0
    /\ alertsSent = 0
    /\ lastSend = NoSend

\* the request the Gateway posts to the callback URL of startPushMethod
CallbackRequest ==
    [method |-> "POST", pathname |-> <<"/", "e", "v", "e", "n", "t", "s", "/", "1">>]

\* bodies of one or two well-formed notification blocks
WellFormedBodies == { body \in Bodies : Len(body) \in 1..2 /\ \A i \in DOMAIN body : body[i] = "ok" }

\* the application run with the throttle on: a small window, one attempt
AppThrottleInit ==
    /\ now = 0
    /\ alertConfig = [enabled |-> TRUE, webhookUrl |-> "https://hook",
                      throttling |-> [enabled |-> TRUE, windowMs |-> 3000,
                                      maxAlertsPerWindow |-> 2, debounceMs |-> 1000],
                      retryAttempts |-> 1, retryDelay |-> DefaultRetryDelay]
    /\ isEnabled = TRUE
    /\ throttleMap = [e \in EventTypes |-> NoRecord]
    /\ evalLog = [e \in EventTypes |-> << >>]
    /\ sending = << >>
    /\ alertCounter = 0
    /\ alertsSent = 0
    /\ lastSend = NoSend

\* the application's handlers do not throw on events with a readable time
NextApp ==
    \/ PollStart
    \/ StartCreateOk
    \/ PollTick
    \/ \E n \in 1..MaxBatch : PullOk(n, 0)
    \/ PushStart
    \/ ListenOk
    \/ SubscribeOk
    \/ \E req \in AppRequests : HttpRequest(req)
    \/ \E req \in AppRequests : \E body \in Bodies : RequestEnd(req, body, 0, FALSE)
    \/ \E e \in EventTypes : HandleEventSendAlert(e)
    \/ \E i \in 1..MaxSending : FetchOk(i)
    \/ \E i \in 1..MaxSending : FetchFail(i)
    \/ \E i \in 1..MaxSending : DelayDone(i)

-----------------------------------------------------------------------------
(* Specifications *)

AlertIdle ==
    /\ now = 0
    /\ alertConfig = [enabled |-> TRUE, webhookUrl |-> "https://hook",
                      throttling |-> DefaultThrottling, retryAttempts |-> 3,
                      retryDelay |-> DefaultRetryDelay]
    /\ isEnabled = TRUE
    /\ throttleMap = [e \in EventTypes |-> NoRecord]
    /\ evalLog = [e \in EventTypes |-> << >>]
    /\ sending = << >>
    /\ alertCounter = 0
    /\ alertsSent = 0
    /\ lastSend = NoSend

InitThrottle == AlertInit /\ EventIdle /\ ClassIdle

SpecThrottle == InitThrottle /\ [][NextThrottle]_vars

InitPoll == AlertIdle /\ PollInit /\ ClassIdle

SpecPoll == InitPoll /\ [][NextPoll]_vars

InitPush == AlertIdle /\ PushInit /\ ClassIdle

SpecPush == InitPush /\ [][NextPush]_vars

InitClassify == AlertIdle /\ EventIdle /\ ClassInit

SpecClassify == InitClassify /\ [][NextClassify]_vars

InitDispatch == DispatchInit /\ EventIdle /\ ClassIdle

InitIds == AlertIdle /\ EventIdle /\ ClassIdle

InitApp == AppAlertInit /\ AppEventInit /\ ClassIdle

InitStart == AlertIdle /\ StartInit /\ ClassIdle

InitGate == GateInit /\ EventIdle /\ ClassIdle

SpecGate == InitGate /\ [][NextGate]_vars

SpecDispatch == InitDispatch /\ [][NextDispatch]_vars

SpecIds == InitIds /\ [][NextIds]_vars

SpecApp == InitApp /\ [][NextApp]_vars

NextStart == NextPoll \/ NextPush

InitAppThrottle == AppThrottleInit /\ AppEventInit /\ ClassIdle

\* the application run with well-formed notifications only
NextAppThrottle ==
    \/ Tick
    \/ PollStart
    \/ StartCreateOk
    \/ PollTick
    \/ \E n \in 1..MaxBatch : PullOk(n, 0)
    \/ PushStart
    \/ ListenOk
    \/ SubscribeOk
    \/ HttpRequest(CallbackRequest)
    \/ \E body \in WellFormedBodies : RequestEnd(CallbackRequest, body, 0, FALSE)
    \/ \E e \in EventTypes : HandleEventSendAlert(e)
    \/ \E i \in 1..MaxSending : FetchOk(i)
    \/ \E i \in 1..MaxSending : FetchFail(i)

SpecAppThrottle == InitAppThrottle /\ [][NextAppThrottle]_vars

SpecStart == InitStart /\ [][NextStart]_vars

-----------------------------------------------------------------------------
(* Throttle claims *)

\* the number of evaluations of type e admitted at a time in [a, b)
AdmittedIn(e, a, b) ==
    Cardinality({ i \in DOMAIN evalLog[e] :
                    /\ evalLog[e][i].decision = "admitted"
                    /\ a <= evalLog[e][i].time
                    /\ evalLog[e][i].time < b })

EvalTimes(e) == [i \in DOMAIN evalLog[e] |-> evalLog[e][i].time]
EvalDecisions(e) == [i \in DOMAIN evalLog[e] |-> evalLog[e][i].decision]

\* C1 (as claimed): in every rolling interval of length windowMs at most
\* maxAlertsPerWindow alerts of one type are admitted.
C1_RollingWindowBound ==
    \A e \in EventTypes : \A i \in DOMAIN evalLog[e] :
        AdmittedIn(e, evalLog[e][i].time, evalLog[e][i].time + alertConfig.throttling.windowMs)
            <= alertConfig.throttling.maxAlertsPerWindow

\* C1 (amended): between two clears, at most maxAlertsPerWindow alerts of one
\* type are admitted inside one counting window [windowStart, windowStart +
\* windowMs) of the type's record, and so at most 2 * maxAlertsPerWindow inside
\* any rolling interval of length windowMs.
C1_FixedWindowBound ==
    \A e \in EventTypes :
        /\ throttleMap[e] /= NoRecord =>
             AdmittedIn(e, throttleMap[e].windowStart,
                        throttleMap[e].windowStart + alertConfig.throttling.windowMs)
                <= alertConfig.throttling.maxAlertsPerWindow
        /\ \A i \in DOMAIN evalLog[e] :
             AdmittedIn(e, evalLog[e][i].time,
                        evalLog[e][i].time + alertConfig.throttling.windowMs)
                <= 2 * alertConfig.throttling.maxAlertsPerWindow

\* C1 witness: a type whose window is full and for which an event was
\* suppressed by the rate limit.
C1_Witness ==
    \E e \in EventTypes :
        /\ throttleMap[e] /= NoRecord
        /\ throttleMap[e].count = alertConfig.throttling.maxAlertsPerWindow
        /\ \E i \in DOMAIN evalLog[e] : evalLog[e][i].decision = "rate_limited"

C3_ScenarioRun ==
    /\ alertConfig.throttling = DefaultThrottling
    /\ EvalTimes("motionalarm") = <<0, 1000, 2000, 3000, 4000, 5000>>

\* C3 (as claimed): with windowMs = 60000, maxAlertsPerWindow = 5, debounceMs =
\* 5000 and motionalarm events at 0, 1000, ..., 5000 ms on a fresh map, the
\* events at 0 and 5000 are admitted and the four in between are debounced.
C3_Scenario ==
    C3_ScenarioRun =>
        EvalDecisions("motionalarm") =
            <<"admitted", "debounced", "debounced", "debounced", "debounced", "admitted">>

\* the same six events one second later, at 1000, 2000, ..., 6000 ms
C3_LaterScenarioRun ==
    /\ alertConfig.throttling = DefaultThrottling
    /\ EvalTimes("motionalarm") = <<1000, 2000, 3000, 4000, 5000, 6000>>

\* away from clock time 0 the first and the last event of the scenario are the
\* two admitted
C3_LaterScenario ==
    C3_LaterScenarioRun =>
        EvalDecisions("motionalarm") =
            <<"admitted", "debounced", "debounced", "debounced", "debounced", "admitted">>

-----------------------------------------------------------------------------
(* Subscription manager claims *)

\* the state of section 4.2 that an EventService state stands for
SubState ==
    IF ~isRunning
    THEN IF starting > 0 THEN "Subscribing" ELSE "Uninitialized"
    ELSE IF recreating > 0 THEN "Recreating"
    ELSE IF ~subscriptionActive THEN "Disabled"
    ELSE IF retryCount > 0 THEN "Degraded"
    ELSE "Active"

\* the transitions listed in section 4.2
ListedTransitions ==
    { <<"Uninitialized", "Subscribing">>,
      <<"Subscribing", "Active">>,
      <<"Subscribing", "Disabled">>,
      <<"Active", "Active">>,
      <<"Active", "Degraded">>,
      <<"Degraded", "Active">>,
      <<"Degraded", "Recreating">>,
      <<"Recreating", "Active">>,
      <<"Recreating", "Disabled">> }

SubStates ==
    {"Uninitialized", "Subscribing", "Active", "Degraded", "Recreating", "Disabled"}

SameState == { <<s, s>> : s \in SubStates }

PollCycleOps ==
    {"tick", "pull_ok", "pull_failed", "handler_threw", "recreate_ok", "recreate_failed"}

StartOps == {"start", "start_ignored", "start_rejected", "create_ok", "create_failed"}

ExtraPollTransitions ==
    { t \in { <<"Active", "Disabled">>, <<"Active", "Recreating">>,
              <<"Disabled", "Recreating">> } :
        \/ /\ t = <<"Active", "Disabled">>
           /\ ~config.polling.retryOnError \/ config.polling.maxRetries = 0
        \/ /\ t = <<"Active", "Recreating">>
           /\ config.polling.retryOnError /\ config.polling.maxRetries = 1
        \/ /\ t = <<"Disabled", "Recreating">>
           /\ config.polling.retryOnError /\ config.polling.maxRetries >= 1 }

\* what a start() does when it completes: from Subscribing, or from a running
\* state when another start() call or a poll cycle of an earlier run is still
\* in flight
StartTransitions ==
    { t \in SubStates \X SubStates :
        \/ t = <<"Uninitialized", "Subscribing">>
        \/ /\ t[1] \in {"Subscribing", "Active", "Degraded", "Recreating", "Disabled"}
           /\ t[2] \in {"Active", "Recreating"}
        \/ /\ t[1] \in {"Subscribing", "Active", "Degraded", "Recreating", "Disabled"}
           /\ t[2] \in {"Disabled", "Recreating"}
           /\ t[1] = "Subscribing" => config.polling.retryOnError
        \/ /\ t = <<"Subscribing", "Uninitialized">>
           /\ ~config.polling.retryOnError }

C6_DisabledUntilRestart ==
    [][ ~subscriptionActive =>
          /\ lastOp' = "tick" =>
               UNCHANGED <<pulling, recreating, retryCount, subscriptionActive>>
          /\ subscriptionActive' => lastOp' = "create_ok" ]_vars

\* C7 (as claimed): at most one poll cycle (its pullMessages call or its
\* recreate call) is in flight at any time.
C7_NoOverlappingPolls == pulling + recreating <= 1

\* C8 (as claimed): a poll cycle whose pullMessages call succeeds ends with
\* retryCount = 0 and the subscription still active; a recreate that succeeds
\* ends with subscriptionActive = true and retryCount = 0.
C8_SuccessResetsRetryCount ==
    [][ /\ lastOp' \in {"pull_ok", "handler_threw"} =>
             retryCount' = 0 /\ subscriptionActive'
        /\ lastOp' = "recreate_ok" => retryCount' = 0 /\ subscriptionActive' ]_vars

-----------------------------------------------------------------------------
(* Claims about the push receiver *)

\* the request is a POST whose path starts with config.push.httpServer.endpoint
MatchesConfiguredEndpoint(req) ==
    /\ req.method = "POST"
    /\ StartsWith(req.pathname, config.push.endpoint)

\* C9 (as claimed): the receiver goes on to process a request if and only if
\* it is a POST whose path starts with the configured push endpoint; every
\* other request is answered 404 and changes nothing.
C9_AcceptsConfiguredEndpoint ==
    [][lastOp' = "http_request" =>
         /\ (lastRequest' \in reading') <=> MatchesConfiguredEndpoint(lastRequest')
         /\ ~MatchesConfiguredEndpoint(lastRequest') =>
              /\ lastResponse'.status = 404
              /\ eventCounter' = eventCounter
              /\ reading' = reading]_vars

\* the receiver's own rule, seen at work: a POST below the configured
\* '/onvif/events' is turned away with 404
C9_ConfiguredPathRejected ==
    /\ lastOp = "http_request"
    /\ config.push.endpoint = EndpointOnvifEvents
    /\ MatchesConfiguredEndpoint(lastRequest)
    /\ lastResponse.status = 404

\* C10: a request whose body has been read is answered 200, whether the body
\* held no notification, or a handler or the log line threw while its events
\* were delivered; it is answered 500 only when writing the response threw.
C10_AcceptedAnswered200 ==
    lastOp = "request_end" =>
        /\ lastResponse.status \in {200, 500}
        /\ lastResponse.status = 500 <=> lastResponse.writeThrew

\* a body with a notification whose delivery threw, answered 200
C10_Witness ==
    /\ lastOp = "request_end"
    /\ lastResponse.parsed > 0
    /\ lastResponse.threw
    /\ ~lastResponse.writeThrew
    /\ lastResponse.status = 200

-----------------------------------------------------------------------------
(* Claims about the normalizer on the push path *)

WellFormedKinds == {"ok", "notime"}

\* the blocks of the last batch that are not well-formed
MalformedBlocks == { i \in DOMAIN lastBatch.body : lastBatch.body[i] \notin WellFormedKinds }

\* the events of the last batch that were handed to the handlers
EmittedEvents == SubSeq(lastBatch.events, 1, lastBatch.emitted)

\* C11 (as claimed): a push body of N well-formed blocks is normalized into
\* exactly N events, the i-th made of the i-th block alone, and eventCounter
\* grows by exactly N.
C11_OneEventPerBlock ==
    (lastOp = "request_end" /\ MalformedBlocks = {}) =>
        /\ Len(lastBatch.events) = Len(lastBatch.body)
        /\ \A i \in DOMAIN lastBatch.events : lastBatch.events[i].blocks = {i}
        /\ lastBatch.counted = Len(lastBatch.body)

\* a body of two well-formed blocks whose first event made a handler throw:
\* eventCounter grew by one
C11_BatchCutShort ==
    /\ lastOp = "request_end"
    /\ MalformedBlocks = {}
    /\ Len(lastBatch.body) = 2
    /\ lastBatch.throwAt = 1
    /\ lastBatch.counted = 1

\* what is left of C11 when no handler throws: N events, one per block, and
\* eventCounter grows by N
C11_WhenNoHandlerThrows ==
    (lastOp = "request_end" /\ MalformedBlocks = {} /\ lastBatch.throwAt = 0) =>
        /\ Len(lastBatch.events) = Len(lastBatch.body)
        /\ \A i \in DOMAIN lastBatch.events : lastBatch.events[i].blocks = {i}
        /\ lastBatch.counted = Len(lastBatch.body)

\* C12 (as claimed): when one block of a push body is malformed and no handler
\* throws, the malformed block gives no event and every other block, before
\* and after it, gives one emitted event of its own.
C12_MalformedBlockSkipped ==
    (lastOp = "request_end" /\ Cardinality(MalformedBlocks) = 1 /\ lastBatch.throwAt = 0) =>
        { EmittedEvents[i].blocks : i \in DOMAIN EmittedEvents } =
            { {i} : i \in (DOMAIN lastBatch.body) \ MalformedBlocks }

\* three blocks, the middle one with an unreadable UtcTime: the first two are
\* emitted, the third is not
C12_SiblingDropped ==
    /\ lastOp = "request_end"
    /\ lastBatch.body = <<"ok", "badtime", "ok">>
    /\ lastBatch.throwAt = 0
    /\ lastBatch.emitted = 2

-----------------------------------------------------------------------------
(* Claims about classification *)

Str_empty == << >>

\* the classification as section 3.1 words it
ClaimedEventType(str) ==
    IF str = << >> \/ PartsLength(str) < 2 THEN Str_unknown
    ELSE LET lastPart == ToLowerCase(LastPart(str))
         IN  IF \/ Includes(lastPart, Str_people)
                \/ Includes(lastPart, Str_human)
                \/ Includes(lastPart, Str_person)
             THEN Str_peopledetection
             ELSE IF Includes(lastPart, Str_object) /\ Includes(ToLowerCase(str), Str_analytics)
             THEN Str_objectdetection
             ELSE ReplaceSpecialRuns(lastPart)

\* C13 (as claimed): the type of a topic is peopledetection, objectdetection
\* or the lowercased last segment with every run of other characters replaced
\* by one '_', and unknown for a topic that is empty or has no '/'.
C13_ClassifiedAsClaimed ==
    processedType /= NoType => processedType = ClaimedEventType(topic)

\* C13 (amended): a topic with a '/' is classified by its last segment:
\* peopledetection, objectdetection, or the lowercased segment with every
\* single character outside [a-z0-9] replaced by '_'; a topic without '/' is
\* lowercased and replaced in the same way as a whole, with no people or
\* object rule; only the empty topic gives unknown.
C13_ClassifiedPerCharacter ==
    processedType /= NoType =>
        /\ topic = << >> => processedType = Str_unknown
        /\ (topic /= << >> /\ PartsLength(topic) < 2) =>
              /\ Len(processedType) = Len(topic)
              /\ \A i \in DOMAIN topic :
                    processedType[i] =
                        IF LowerChar(topic[i]) \in Range(LowerCase) \cup Digits
                        THEN LowerChar(topic[i]) ELSE "_"
        /\ PartsLength(topic) >= 2 =>
              LET seg == ToLowerCase(LastPart(topic))
              IN  IF \E w \in {Str_people, Str_human, Str_person} : Includes(seg, w)
                  THEN processedType = Str_peopledetection
                  ELSE IF Includes(seg, Str_object) /\ Includes(ToLowerCase(topic), Str_analytics)
                  THEN processedType = Str_objectdetection
                  ELSE /\ Len(processedType) = Len(seg)
                       /\ \A i \in DOMAIN seg :
                             processedType[i] =
                                 IF seg[i] \in Range(LowerCase) \cup Digits
                                 THEN seg[i] ELSE "_"

\* C13 witness: a last segment with two special characters in a row has been
\* classified, with two underscores.
C13_Witness ==
    /\ topic = <<"/", "-", "-">>
    /\ processedType = <<"_", "_">>

\* the lookup table of section 3.3
ClaimedSeverity(type) ==
    IF ToLowerCase(type) = Str_peopledetection THEN "high"
    ELSE IF ToLowerCase(type) \in {Str_tamper, Str_tampering} THEN "critical"
    ELSE IF ToLowerCase(type) = Str_device THEN "low"
    ELSE "medium"

\* C19 (as claimed): the severity of every alert payload is the table's value
\* for its event type, compared case-insensitively.
C19_SeverityOfEveryPayload ==
    payload /= NoPayload => payload.severity = ClaimedSeverity(payload.eventType)

\* C19 (amended): the severity of every payload that createAlertPayload builds
\* for an event is the table's value for the event's type, compared
\* case-insensitively; the payload of testWebhook() is fixed, with type test
\* and severity low.
C19_SeverityOfEventPayloads ==
    /\ payload.made = "createAlertPayload" =>
          payload.severity = ClaimedSeverity(payload.eventType)
    /\ payload.made = "testWebhook" =>
          payload.eventType = Str_test /\ payload.severity = "low"

\* C19 witness: a payload built for an event of type Tamper is critical.
C19_Witness ==
    /\ payload.made = "createAlertPayload"
    /\ payload.eventType = <<"T", "a", "m", "p", "e", "r">>
    /\ payload.severity = "critical"

-----------------------------------------------------------------------------
(* Claims about webhook delivery *)

\* C14: a sendWebhook run makes at most retryAttempts calls, none after a call
\* that succeeded; the alert is reported sent exactly when a call succeeded,
\* and reported failed only after retryAttempts failed calls.
C14_AttemptsAndOutcome ==
    /\ \A i \in DOMAIN sending :
          /\ Len(sending[i].results) < alertConfig.retryAttempts
          /\ \A k \in DOMAIN sending[i].results : sending[i].results[k] = "fail"
    /\ lastSend /= NoSend =>
          /\ Len(lastSend.results) <= alertConfig.retryAttempts
          /\ \A k \in 1..(Len(lastSend.results) - 1) : lastSend.results[k] = "fail"
          /\ lastSend.outcome = "sent" <=>
                (\E k \in DOMAIN lastSend.results : lastSend.results[k] = "ok")
          /\ lastSend.outcome = "failed" =>
                Len(lastSend.results) = alertConfig.retryAttempts

\* C14 witness: with retryAttempts = 3, two failed calls and a third that
\* succeeded, reported as sent.
C14_Witness ==
    /\ alertConfig.retryAttempts = 3
    /\ lastSend = [results |-> <<"fail", "fail", "ok">>, outcome |-> "sent",
                   rejected |-> FALSE]

\* C15: a step that ends a sendWebhook run without counting the alert is the
\* retryAttempts-th failed call; it reports alertFailed, the sendAlert call
\* resolves, and the step changes nothing else: the service stays enabled, the
\* throttle records and the other runs in flight are as before.
C15_FailureIsReportedOnly ==
    [][(Len(sending') < Len(sending) /\ alertCounter' = alertCounter) =>
         /\ lastSend'.outcome = "failed"
         /\ ~lastSend'.rejected
         /\ Len(lastSend'.results) = alertConfig.retryAttempts
         /\ \E i \in DOMAIN sending : sending' = RemoveAt(sending, i)
         /\ UNCHANGED <<now, alertConfig, isEnabled, throttleMap, evalLog>>]_vars

\* C15 witness: an alert has failed after three calls while another
\* sendWebhook run goes on.
C15_Witness ==
    /\ lastSend.outcome = "failed"
    /\ Len(lastSend.results) = 3
    /\ sending /= << >>
    /\ isEnabled

-----------------------------------------------------------------------------
(* Claims about shutdown *)

\* C17: stop() leaves no poll timer and no open HTTP server, and when
\* OnvifService holds a subscription it sends the unsubscribe call to the
\* Gateway (which may succeed or fail).
C17_StopUnsubscribes ==
    [][lastOp' = "stop" =>
         /\ ~pullTimer'
         /\ httpServer' \in {"null", "closing"}
         /\ subscription => lastUnsubscribe' \in UnsubscribeCalled]_vars

\* C17, the failing case: a push-mode service was stopped, its subscription
\* is still held and cleanup() never reached the unsubscribe.
C17_SubscriptionLeft ==
    /\ lastOp = "stop"
    /\ config.method = "push"
    /\ subscription
    /\ lastUnsubscribe = "not_reached"

-----------------------------------------------------------------------------
(* Claims about the throttle records of different event types *)

\* the decision computed from one record alone (NoRecord for a type not seen)
DecisionOnRecord(rec, t, tc) ==
    LET own == IF rec = NoRecord THEN NewThrottleRecord(t) ELSE rec
    IN  ThrottleDecision(ResetWindow(own, t, tc), t, tc)

LastEval(eventType) == evalLog[eventType][Len(evalLog[eventType])]

\* C18: an evaluation of an event of type A leaves the record and the history
\* of every other type as they were, and its decision is the one computed
\* from A's own record and the current time.
C18_OwnRecordOnly ==
    [][\A a \in EventTypes :
          Len(evalLog'[a]) > Len(evalLog[a]) =>
             /\ \A b \in EventTypes \ {a} :
                   throttleMap'[b] = throttleMap[b] /\ evalLog'[b] = evalLog[b]
             /\ LastEval(a)' =
                   [time |-> now,
                    decision |-> DecisionOnRecord(throttleMap[a], now,
                                                  alertConfig.throttling)]]_vars

\* C18 witness: at one instant motionalarm is rate limited while
\* peopledetection, with a record of its own, is admitted.
C18_Witness ==
    /\ evalLog["motionalarm"] /= << >>
    /\ evalLog["peopledetection"] /= << >>
    /\ LastEval("motionalarm") = [time |-> now, decision |-> "rate_limited"]
    /\ LastEval("peopledetection") = [time |-> now, decision |-> "admitted"]
    /\ throttleMap["peopledetection"].count < throttleMap["motionalarm"].count

-----------------------------------------------------------------------------
(* Claims about event ids *)

\* C20: no two events created in the process, on either path, have the
\* same id.
C20_IdsUnique ==
    \A i, j \in DOMAIN issued : i /= j => issued[i].id /= issued[j].id

\* C20, the failing case: two events created in the same millisecond for
\* which Math.random() gave the same suffix carry the same id.
C20_SameIdTwice ==
    \E i, j \in DOMAIN issued :
        /\ i < j
        /\ issued[i].id = issued[j].id
        /\ issued[i].path = "push"
        /\ issued[j].path = "push"

-----------------------------------------------------------------------------
(* Claims about ingestion and alert delivery *)

\* C16: the step of a poll cycle or of a push request handler that emits
\* events ends the cycle, or answers the request with 200, without making or
\* awaiting a webhook call: the deliveries in flight are as before and the
\* alerts of the new events are left pending.
C16_IngestionDoesNotWait ==
    [][eventCounter' > eventCounter =>
         /\ UNCHANGED sendVars
         /\ handling' >= handling
         /\ handling' <= handling + (eventCounter' - eventCounter)
         /\ \/ pulling' = pulling - 1
            \/ /\ lastRequest' \in reading
               /\ reading' = reading \ {lastRequest'}
               /\ lastResponse'.status = 200]_vars

\* C16 witness: three polled events, all with their alert still under way
\* (one in a retry delay, two not yet sent); as a batch holds at most two
\* events, a later poll cycle completed while an earlier event's delivery
\* was in flight.
C16_Witness ==
    /\ config.method = "polling"
    /\ lastOp = "pull_ok"
    /\ eventCounter = 3
    /\ handling = 2
    /\ Len(sending) = 1
    /\ sending[1].phase = "delay"

-----------------------------------------------------------------------------
(* Claims about the category of an event *)

\* C21: the type extractEventType gives an event is never the empty string,
\* whatever the topic.
C21_TypeNonEmpty ==
    processedType /= NoType => processedType /= << >>

\* C21, the failing case: a topic that ends with '/' has an empty last
\* segment, and the event's type is the empty string.
C21_EmptyType ==
    /\ topic /= << >>
    /\ topic[Len(topic)] = "/"
    /\ processedType = << >>

-----------------------------------------------------------------------------
(* Claims about start() *)

\* C22: a service whose configuration lacks the section of its method never
\* gets past start(): it is never running, has no HTTP server, no timer, no
\* subscription and no subscribe or create call under way, has ingested no
\* event, and every start() was rejected.
C22_MissingSectionFailsAtStart ==
    ( \/ config.method = "push" /\ ~config.push.present
      \/ config.method = "polling" /\ ~config.polling.present ) =>
        /\ ~isRunning
        /\ httpServer = "null"
        /\ pushPhase = "none"
        /\ ~pullTimer /\ liveTimers = 0
        /\ starting = 0 /\ pulling = 0 /\ recreating = 0
        /\ ~subscription /\ ~subscriptionActive
        /\ eventCounter = 0 /\ reading = {}
        /\ lastOp \in {"new", "start_rejected"}

\* C22 witness: start() was called in push mode without push settings and
\* was rejected.
C22_Witness ==
    /\ config.method = "push"
    /\ ~config.push.present
    /\ lastOp = "start_rejected"
    /\ ~isRunning

-----------------------------------------------------------------------------
(* Claims about the gates of the throttle *)

\* the type evaluated by the step, if the step is an evaluation
Evaluates(a) == Len(evalLog'[a]) > Len(evalLog[a])

\* the record the evaluation starts from: the stored one, or a new one
RecordBefore(a) ==
    IF throttleMap[a] = NoRecord
    THEN [count |-> 0, windowStart |-> now, lastEventTime |-> 0]
    ELSE throttleMap[a]

\* the count the gates see: 0 when the window has run out
CountAtGates(a) ==
    IF now - RecordBefore(a).windowStart >= alertConfig.throttling.windowMs
    THEN 0 ELSE RecordBefore(a).count

\* C23 (as claimed): a suppressed event leaves the count and the last-admitted
\* time of its type's record as they were before the evaluation.
C23_SuppressedLeavesRecord ==
    [][\A a \in EventTypes :
          (Evaluates(a) /\ LastEval(a)'.decision /= "admitted") =>
             /\ throttleMap'[a].count = RecordBefore(a).count
             /\ throttleMap'[a].lastEventTime = RecordBefore(a).lastEventTime]_vars

\* C23 (amended): the window reset comes first, the rate limit is checked on
\* the count after the reset and the debounce only when the rate limit let
\* the event pass; a suppressed event leaves the last-admitted time unchanged
\* and the count as the window reset left it; an admitted event adds one to
\* that count and sets the last-admitted time to the time of evaluation.
C23_GatesInOrder ==
    [][\A a \in EventTypes :
          Evaluates(a) =>
             LET d == LastEval(a)'.decision
                 last == RecordBefore(a).lastEventTime
                 tc == alertConfig.throttling
             IN  /\ d = "rate_limited" <=> CountAtGates(a) >= tc.maxAlertsPerWindow
                 /\ d = "debounced" <=>
                       /\ CountAtGates(a) < tc.maxAlertsPerWindow
                       /\ last > 0
                       /\ now - last < tc.debounceMs
                 /\ d /= "admitted" =>
                       /\ throttleMap'[a].count = CountAtGates(a)
                       /\ throttleMap'[a].lastEventTime = last
                 /\ d = "admitted" =>
                       /\ throttleMap'[a].count = CountAtGates(a) + 1
                       /\ throttleMap'[a].lastEventTime = now]_vars

\* C23 witness: an event that both gates would suppress, with a full window
\* and inside the debounce interval, was suppressed as rate limited.
C23_Witness ==
    /\ evalLog["motionalarm"] /= << >>
    /\ LastEval("motionalarm") = [time |-> now, decision |-> "rate_limited"]
    /\ throttleMap["motionalarm"].lastEventTime > 0
    /\ now - throttleMap["motionalarm"].lastEventTime < alertConfig.throttling.debounceMs

\* the step keeps the record of type a (it neither creates nor removes it)
KeepsRecord(a) == throttleMap[a] /= NoRecord /\ throttleMap'[a] /= NoRecord

\* the record of type a has been in its window for windowMs or longer
WindowRanOut(a) ==
    now - throttleMap[a].windowStart >= alertConfig.throttling.windowMs

\* C24: the count of every record lies in 0..maxAlertsPerWindow; the count of
\* a record goes down, and its windowStart changes, only in an evaluation
\* that finds now - windowStart >= windowMs, and every such evaluation sets
\* windowStart to now and restarts the count from 0.
C24_CountBoundedResetOnRollover ==
    /\ [](\A a \in EventTypes :
            throttleMap[a] /= NoRecord =>
               /\ throttleMap[a].count >= 0
               /\ throttleMap[a].count <= alertConfig.throttling.maxAlertsPerWindow)
    /\ [][\A a \in EventTypes :
            KeepsRecord(a) =>
               /\ ( \/ throttleMap'[a].count < throttleMap[a].count
                    \/ throttleMap'[a].windowStart /= throttleMap[a].windowStart )
                     => Evaluates(a) /\ WindowRanOut(a)
               /\ (Evaluates(a) /\ WindowRanOut(a)) =>
                     /\ throttleMap'[a].windowStart = now
                     /\ throttleMap'[a].count \in {0, 1}
                     /\ throttleMap'[a].count = 1 <=>
                           LastEval(a)'.decision = "admitted"]_vars

\* C24 witness: a full window has rolled over exactly at now - windowStart =
\* windowMs and the count was restarted by the evaluation that found it.
C24_Witness ==
    /\ Len(evalLog["motionalarm"]) >= 3
    /\ evalLog["motionalarm"][2].decision = "admitted"
    /\ LastEval("motionalarm").time = now
    /\ throttleMap["motionalarm"].windowStart = now
    /\ now = alertConfig.throttling.windowMs
    /\ throttleMap["motionalarm"].count <= 1

\* C25: between two clears, any two admitted events of one type were
\* admitted at times at least debounceMs apart.
C25_AdmissionsApart ==
    \A a \in EventTypes : \A i, j \in DOMAIN evalLog[a] :
        ( /\ i < j
          /\ evalLog[a][i].decision = "admitted"
          /\ evalLog[a][j].decision = "admitted" ) =>
            evalLog[a][j].time - evalLog[a][i].time >= alertConfig.throttling.debounceMs

\* C25, the failing case: an event admitted at time 0 and another of the
\* same type admitted less than debounceMs later.
C25_AdmittedRightAfterZero ==
    \E a \in EventTypes :
        /\ Len(evalLog[a]) >= 2
        /\ evalLog[a][1] = [time |-> 0, decision |-> "admitted"]
        /\ evalLog[a][2].decision = "admitted"
        /\ evalLog[a][2].time < alertConfig.throttling.debounceMs

\* C25 for admissions after time 0: the gap holds between any two admitted
\* events of which the earlier was admitted at a time other than 0.
C25_AdmissionsApartAfterZero ==
    \A a \in EventTypes : \A i, j \in DOMAIN evalLog[a] :
        ( /\ i < j
          /\ evalLog[a][i].time > 0
          /\ evalLog[a][i].decision = "admitted"
          /\ evalLog[a][j].decision = "admitted" ) =>
            evalLog[a][j].time - evalLog[a][i].time >= alertConfig.throttling.debounceMs

-----------------------------------------------------------------------------
(* Claims about concurrent handleEvent invocations *)

\* what one evaluation, run alone, makes of a record at time t
SequentialRecord(rec, t, tc) ==
    LET own == IF rec = NoRecord THEN NewThrottleRecord(t) ELSE rec
        r == ResetWindow(own, t, tc)
    IN  IF ThrottleDecision(r, t, tc) = "admitted"
        THEN [r EXCEPT !.count = @ + 1, !.lastEventTime = t]
        ELSE r

\* C26: with handleEvent invocations suspended at their awaits in any
\* number and order, every evaluation reads, checks and updates its type's
\* record in one step: the decision and the stored record are those of the
\* evaluation run alone on the record as it stood, no other record changes,
\* and the count never exceeds maxAlertsPerWindow.
C26_EvaluationAtomic ==
    /\ [](\A a \in EventTypes :
            throttleMap[a] /= NoRecord =>
               throttleMap[a].count <= alertConfig.throttling.maxAlertsPerWindow)
    /\ [][\A a \in EventTypes :
            ( \/ Evaluates(a)
              \/ throttleMap'[a] /= throttleMap[a] ) =>
               /\ Evaluates(a)
               /\ LastEval(a)' =
                     [time |-> now,
                      decision |-> DecisionOnRecord(throttleMap[a], now,
                                                    alertConfig.throttling)]
               /\ throttleMap'[a] =
                     SequentialRecord(throttleMap[a], now, alertConfig.throttling)
               /\ \A b \in EventTypes \ {a} : throttleMap'[b] = throttleMap[b]]_vars

\* C26 witness: in push mode an event was debounced against the admission
\* of an event whose webhook call is still awaited, while a third invocation
\* awaits the device information.
C26_Witness ==
    /\ config.method = "push"
    /\ handling > 0
    /\ sending /= << >>
    /\ alertCounter = 0 /\ lastSend = NoSend
    /\ \E a \in EventTypes :
          /\ Len(evalLog[a]) = 2
          /\ evalLog[a][1].decision = "admitted"
          /\ evalLog[a][2].decision = "debounced"

-----------------------------------------------------------------------------
(* Claims about the retry counter of polling *)

\* C27: a pullMessages failure met by a running service adds exactly one to
\* retryCount, and while the subscription is active with retryOnError set,
\* retryCount lies in 0..maxRetries.
C27_RetryCountBounded ==
    /\ []((subscriptionActive /\ config.polling.retryOnError) =>
             (retryCount >= 0 /\ retryCount <= config.polling.maxRetries))
    /\ [][(lastOp' = "pull_failed" /\ pulling' < pulling /\ isRunning) =>
             retryCount' = retryCount + 1]_vars

\* C27 witness: failed poll cycles have brought retryCount to maxRetries with
\* the subscription still active.
C27_Witness ==
    /\ lastOp = "pull_failed"
    /\ isRunning
    /\ subscriptionActive
    /\ config.polling.retryOnError
    /\ config.polling.maxRetries >= 2
    /\ retryCount = config.polling.maxRetries

-----------------------------------------------------------------------------
(* Claims about a failed creation of the pull-point subscription *)

\* the step is a start() whose createPullPointSubscription call failed
CreationFails == starting' < starting /\ lastOp' \in {"start_rejected", "create_failed"}

\* C28: a start() whose creation call fails leaves the subscription
\* disabled; without retryOnError it rejects and leaves the service not
\* running and without poll timer, with retryOnError it resolves with the
\* service running; and while the subscription is disabled a timer tick
\* issues neither a pull nor a creation call.
C28_FailedCreationDisables ==
    [][ /\ CreationFails =>
             /\ ~subscriptionActive'
             /\ ~config.polling.retryOnError =>
                   (lastOp' = "start_rejected" /\ ~isRunning' /\ ~pullTimer')
             /\ config.polling.retryOnError =>
                   (lastOp' = "create_failed" /\ isRunning' /\ pullTimer')
        /\ (~subscriptionActive /\ lastOp' = "tick") =>
             UNCHANGED <<pulling, recreating, starting, subscriptionActive>> ]_vars

\* C28, the failing case: without retryOnError a start() was rejected for
\* its failed creation call and the service is running, without a timer.
C28_RunningAfterRejectedStart ==
    /\ ~config.polling.retryOnError
    /\ lastOp = "start_rejected"
    /\ ~subscriptionActive
    /\ isRunning
    /\ ~pullTimer

\* C28 when start() calls do not overlap: the same, for a start() that is
\* the only one awaiting its creation call and met a service not running.
C28_FailedCreationDisablesAlone ==
    [][ /\ (CreationFails /\ starting = 1 /\ ~isRunning) =>
             /\ ~subscriptionActive'
             /\ ~config.polling.retryOnError =>
                   (lastOp' = "start_rejected" /\ ~isRunning' /\ ~pullTimer')
             /\ config.polling.retryOnError =>
                   (lastOp' = "create_failed" /\ isRunning' /\ pullTimer')
        /\ (~subscriptionActive /\ lastOp' = "tick") =>
             UNCHANGED <<pulling, recreating, starting, subscriptionActive>> ]_vars

-----------------------------------------------------------------------------
(* Claims about the timestamp of a pushed event *)

\* the timestamp claimed for the event of one closed block
ClaimedTimestamp(kind) == IF kind = "ok" THEN "utc" ELSE "receipt"

\* C29: every event parsed from a push body carries a valid timestamp: the
\* UtcTime of its block when that is present and well-formed, and the time
\* of receipt when it is absent or malformed.
C29_TimestampOrReceiptTime ==
    lastOp = "request_end" =>
        \A i \in DOMAIN lastBatch.events :
            LET ev == lastBatch.events[i]
            IN  /\ ev.timestamp /= "invalid"
                /\ \A b \in ev.blocks :
                      ev.blocks = {b} =>
                         ev.timestamp = ClaimedTimestamp(lastBatch.body[b])

\* C29, the failing case: the event of a block whose UtcTime cannot be read
\* was counted and handed to the handlers with an invalid timestamp.
C29_InvalidTimestampEmitted ==
    /\ lastOp = "request_end"
    /\ lastBatch.body = <<"badtime">>
    /\ Len(lastBatch.events) = 1
    /\ lastBatch.events[1].timestamp = "invalid"
    /\ lastBatch.counted = 1

\* C29 without malformed times: an event of a block with a readable UtcTime
\* carries it, and an event of a block without UtcTime the time of receipt.
C29_TimestampWhenReadable ==
    lastOp = "request_end" =>
        \A i \in DOMAIN lastBatch.events :
            LET ev == lastBatch.events[i]
            IN  \A b \in ev.blocks :
                   (ev.blocks = {b} /\ lastBatch.body[b] /= "badtime") =>
                      ev.timestamp = ClaimedTimestamp(lastBatch.body[b])

-----------------------------------------------------------------------------
(* Claims about the subscribe call of push mode *)

\* the step issues the subscribe call (createEventSubscription)
IssuesSubscribe == pushPhase /= "subscribe" /\ pushPhase' = "subscribe"

\* C30: the subscribe call is issued by a start() in progress on a service
\* not running, in the step in which the server has come to listen, with a
\* callback path the receiver accepts; the call ends before start() does, so
\* that a start() issues one call, and a running service issues none.
C30_OneSubscribeAfterListening ==
    [][ /\ IssuesSubscribe =>
             /\ pushPhase = "listen"
             /\ lastOp' = "listen_ok"
             /\ httpServer' = "listening"
             /\ ~isRunning
             /\ Accepts(CallbackRequest)
        /\ pushPhase = "subscribe" => pushPhase' \in {"subscribe", "none"}
        /\ (pushPhase = "subscribe" /\ pushPhase' = "none") =>
             lastOp' \in {"subscribe_ok", "start_rejected"}
        /\ isRunning => pushPhase' = "none" ]_vars

\* C30 witness: the server listens and the subscribe call of start() is
\* under way.
C30_Witness ==
    /\ pushPhase = "subscribe"
    /\ httpServer = "listening"
    /\ lastOp = "listen_ok"
    /\ ~isRunning

-----------------------------------------------------------------------------
(* C31 *)

-----------------------------------------------------------------------------
(* C32 *)

\* every pullMessages and createPullPointSubscription call settles, and the
\* interval timer keeps firing
PollFairness ==
    /\ WF_vars(PollTick)
    /\ WF_vars(PullFail \/ \E n \in 0..MaxBatch : \E throwAt \in 0..n : PullOk(n, throwAt))
    /\ WF_vars(RecreateOk \/ RecreateFail)
    /\ WF_vars(StartCreateOk \/ StartCreateFail)

SpecPollFair == InitPoll /\ [][NextPoll]_vars /\ PollFairness

\* the step is a Gateway call that succeeds
GatewayCallSucceeds ==
    lastOp' \in {"create_ok", "pull_ok", "handler_threw", "recreate_ok"}

\* C32, liveness: when from some point on no Gateway call succeeds and the
\* service keeps running with its timer, the subscription is eventually
\* disabled for good
C32_EventuallyDisabled ==
    (<>[][~GatewayCallSucceeds]_vars /\ <>[](isRunning /\ liveTimers > 0))
        => <>[](~subscriptionActive)

\* C32: failed polls in a row never number more than maxRetries; once the
\* subscription is disabled no poll cycle issues a Gateway call (pullMessages
\* or the recreate); and when from some point on no Gateway call succeeds,
\* the running service ends with the subscription disabled for good.
C32_DisabledWithinMaxRetries ==
    /\ [](consecutiveFailures <= config.polling.maxRetries)
    /\ [][~subscriptionActive => (pulling' <= pulling /\ recreating' <= recreating)]_vars
    /\ C32_EventuallyDisabled

\* C32 counterexample state: with maxRetries >= 1, more polls than maxRetries
\* have failed in a row, the last of them by a rejected pullMessages
C32_MoreFailuresThanMaxRetries ==
    /\ config.polling.maxRetries >= 1
    /\ lastOp = "pull_failed"
    /\ consecutiveFailures > config.polling.maxRetries

\* C32, what holds in every run: the recreate is attempted only by the failed
\* poll that brings retryCount to maxRetries or beyond while retries are
\* allowed, and no timer tick starts a pull while the subscription is disabled
C32_TicksStopWhenDisabled ==
    /\ [][(lastOp' = "tick" /\ ~subscriptionActive) => pulling' = pulling]_vars
    /\ [][recreating' > recreating =>
            /\ lastOp' \in {"pull_failed", "handler_threw"}
            /\ MayRetry(retryCount') /\ MustRecreate(retryCount')]_vars
    /\ C32_EventuallyDisabled

-----------------------------------------------------------------------------
(* C33 *)

\* C33: retryCount grows, and a recreate or the disabling of the subscription
\* is triggered by a poll cycle, only in a step where pullMessages fails; a
\* cycle whose handlers throw on a polled batch leaves retryCount and
\* subscriptionActive as they were and attempts no recreate.
C33_OnlyFailedPullCounts ==
    /\ [][retryCount' > retryCount => lastOp' = "pull_failed"]_vars
    /\ [][lastOp' = "handler_threw" =>
            /\ retryCount' = retryCount
            /\ subscriptionActive' = subscriptionActive
            /\ recreating' = recreating]_vars

\* C33 counterexample state: pullMessages never failed, a handler threw on a
\* polled event, and the subscription is disabled with retryCount 1
C33_HandlerThrowDisables ==
    /\ lastOp = "handler_threw"
    /\ ~config.polling.retryOnError
    /\ isRunning
    /\ eventCounter = 1
    /\ retryCount = 1
    /\ consecutiveFailures = 1
    /\ ~subscriptionActive

-----------------------------------------------------------------------------
(* C34 *)

\* the service is not running and no start() is in progress
Stopped == ~isRunning /\ starting = 0 /\ pushPhase = "none"

\* C34: while the service is stopped no step counts or emits an event:
\* eventCounter does not change.
C34_NoEventsAfterStop ==
    [][Stopped => eventCounter' = eventCounter]_vars

\* C34 counterexample state, polling: stop() ran while a pullMessages call was
\* in flight, the call returned events and they were counted and emitted
C34_PolledAfterStop ==
    /\ config.method = "polling"
    /\ Stopped /\ ~pullTimer /\ liveTimers = 0
    /\ lastOp = "pull_ok"
    /\ eventCounter > 0

-----------------------------------------------------------------------------
(* C35 *)

\* C35: at most one interval timer is alive and at most one start() awaits
\* the creation of a subscription; a start() call made while the service runs
\* or while a start() is in progress creates no timer and issues no creation.
C35_AtMostOneSession ==
    /\ [](liveTimers <= 1 /\ starting <= 1)
    /\ [][(isRunning \/ starting > 0) =>
            (lastOp' \in {"start", "start_ignored"} =>
                /\ liveTimers' = liveTimers
                /\ starting' = starting)]_vars

\* C35 counterexample state: two start() calls overlapped and each created an
\* interval timer; pullTimer holds the second, the first can no longer be cleared
C35_TwoTimers ==
    /\ isRunning
    /\ pullTimer
    /\ liveTimers = 2
    /\ starting = 0

\* C35, what holds: a start() call made while the service is running returns
\* at once and creates nothing
C35_StartWhileRunningIgnored ==
    [][(isRunning /\ lastOp' \in {"start", "start_ignored"}) =>
          /\ lastOp' = "start_ignored"
          /\ UNCHANGED <<liveTimers, pullTimer, starting, subscription,
                         subscriptionActive, httpServer, pushPhase>>]_vars

-----------------------------------------------------------------------------
(* C36 *)

\* C36: a start() that fails leaves the service not running, with no poll
\* timer and with the HTTP server closed or closing, and rejects.
C36_FailedStartCleansUp ==
    [][lastOp' = "start_rejected" =>
          /\ ~isRunning'
          /\ ~pullTimer' /\ liveTimers' = 0
          /\ httpServer' \in {"null", "closing"}]_vars

\* C36 counterexample state: a start() was rejected and cleaned up, the timer
\* of an overlapping start() that succeeded is gone, and the service still
\* counts as running
C36_RunningWithoutTimer ==
    /\ config.method = "polling"
    /\ lastOp = "start_rejected"
    /\ isRunning
    /\ liveTimers = 0
    /\ starting = 0
    /\ lastUnsubscribe \in {"not_connected", "no_subscription"}

\* C36, what holds: a start() that fails with no other start() in progress,
\* on a service that is not running and has no timer left over from
\* overlapping starts, leaves it as claimed; in push mode the server that was
\* listening is being closed
C36_FailedLoneStartCleansUp ==
    [][(lastOp' = "start_rejected" /\ ~isRunning /\ starting <= 1 /\ liveTimers = 0) =>
          /\ ~isRunning'
          /\ ~pullTimer' /\ liveTimers' = 0
          /\ httpServer' \in {"null", "closing"}
          /\ httpServer = "listening" => httpServer' = "closing"]_vars

-----------------------------------------------------------------------------
(* C37 *)

\* the events of the last batch that were normalized
NormalizedEvents == { emitLog[k].event : k \in { j \in DOMAIN emitLog : emitLog[j].op = "normalize" } }

IsDelivery(e) == e.op /= "normalize"

\* what the last delivery loop did after normalizing, in order
Deliveries == SelectSeq(emitLog, IsDelivery)

\* the operations of the last delivery loop on event i, in order
OpsOn(i) ==
    LET OnI(e) == e.event = i
        ds == SelectSeq(Deliveries, OnI)
    IN  [k \in DOMAIN ds |-> ds[k].op]

\* events are handled one after the other, in payload order
InPayloadOrder ==
    \A j, k \in DOMAIN Deliveries :
        j < k => Deliveries[j].event <= Deliveries[k].event

\* C37: every normalized event of a batch, polled or pushed, is counted once,
\* then emitted as 'event', then emitted under its category, before anything
\* is done with the next event; events are handled in payload order.
C37_CountedThenWildcardThenCategory ==
    /\ \A i \in NormalizedEvents : OpsOn(i) = <<"count", "event", "category">>
    /\ InPayloadOrder

\* C37 counterexample state: a push body of two events, the first with an
\* unreadable UtcTime; no handler threw, the first event was counted and
\* emitted, and the second was normalized but never counted nor emitted
C37_SecondEventNeverCounted ==
    /\ lastOp = "request_end"
    /\ lastBatch.body = <<"badtime", "ok">>
    /\ lastBatch.throwAt = 0
    /\ NormalizedEvents = {1, 2}
    /\ OpsOn(1) = <<"count", "event", "category">>
    /\ OpsOn(2) = << >>

\* C37, what holds: the operations on every normalized event are the first
\* few of count, 'event', category, in that order, events are handled in
\* payload order, and when no handler throws and every timestamp is readable
\* all three are done for every event of the batch
C37_OrderOfWhatIsDelivered ==
    /\ \A i \in NormalizedEvents :
          \E m \in 0..3 : OpsOn(i) = SubSeq(<<"count", "event", "category">>, 1, m)
    /\ InPayloadOrder
    /\ (lastOp = "pull_ok" \/ (lastOp = "request_end" /\ ~lastResponse.threw)) =>
          \A i \in NormalizedEvents : OpsOn(i) = <<"count", "event", "category">>

-----------------------------------------------------------------------------
(* C38 *)

\* C38: every event parsed from a push payload is counted and emitted as
\* 'event' and under its category, whether or not a handler, or the code
\* after the emits, throws on an event of the payload.
C38_EveryParsedEventEmitted ==
    lastOp = "request_end" =>
        /\ lastBatch.counted = Len(lastBatch.events)
        /\ \A i \in DOMAIN lastBatch.events :
              OpsOn(i) = <<"count", "event", "category">>

\* C38 counterexample state: a payload of three well-formed blocks, a
\* listener threw on the first event, the other two were neither counted nor
\* emitted, and the request was answered 200
C38_RestOfPayloadDropped ==
    /\ lastOp = "request_end"
    /\ lastBatch.body = <<"ok", "ok", "ok">>
    /\ lastBatch.throwAt = 1
    /\ Len(lastBatch.events) = 3
    /\ lastBatch.counted = 1
    /\ OpsOn(2) = << >> /\ OpsOn(3) = << >>
    /\ lastResponse.status = 200

-----------------------------------------------------------------------------
(* C39 *)

\* C39: while alerts are disabled or no webhook URL is configured, no step
\* evaluates the throttle or starts a send: the throttle records stay as they
\* are (or are cleared by clearThrottleRecords), no evaluation is recorded, no
\* sendWebhook run is added, and alertCounter moves only when a run that was
\* already under way ends; the sendAlert call that is skipped changes nothing.
C39_SkippedAlertTouchesNothing ==
    [][(~isEnabled \/ alertConfig.webhookUrl = "") =>
          /\ \/ throttleMap' = throttleMap
             \/ throttleMap' = [e \in EventTypes |-> NoRecord]
          /\ \A e \in EventTypes : Len(evalLog'[e]) <= Len(evalLog[e])
          /\ Len(sending') <= Len(sending)
          /\ alertCounter' /= alertCounter => Len(sending') < Len(sending)
          /\ (lastSend' = SkippedSend /\ lastSend /= SkippedSend) =>
                UNCHANGED <<throttleMap, evalLog, sending, alertCounter>>]_vars

\* C39 witness: one alert was admitted and sent, the service was disabled, and
\* a sendAlert call made since was skipped: the record still counts one
\* admission and alertCounter is 1
C39_Witness ==
    /\ ~isEnabled
    /\ alertConfig.webhookUrl /= ""
    /\ lastSend = SkippedSend
    /\ throttleMap["motionalarm"] = [count |-> 1, windowStart |-> 0, lastEventTime |-> 0]
    /\ Len(evalLog["motionalarm"]) = 1
    /\ alertCounter = 1
    /\ sending = << >>

-----------------------------------------------------------------------------
(* C40 *)

\* C40: a sendAlert call past the throttle ends as sent or as failed, never as
\* both or neither; alertCounter goes up by one exactly when a call ends as
\* sent and at no other step, so it equals the number of alertSent events.
C40_CounterCountsSentAlerts ==
    /\ [](alertCounter = alertsSent)
    /\ [][Len(sending') < Len(sending) =>
            /\ Len(sending') = Len(sending) - 1
            /\ lastSend'.outcome \in {"sent", "failed"}
            /\ lastSend'.outcome = "sent" <=>
                  (alertCounter' = alertCounter + 1 /\ alertsSent' = alertsSent + 1)
            /\ lastSend'.outcome = "failed" <=>
                  (alertCounter' = alertCounter /\ alertsSent' = alertsSent)]_vars
    /\ [][alertCounter' /= alertCounter => Len(sending') < Len(sending)]_vars

\* C40 witness: with two attempts, one call ended as sent and a later one as
\* failed after two failed attempts; alertCounter is 1
C40_Witness ==
    /\ alertConfig.retryAttempts = 2
    /\ alertsSent = 1
    /\ alertCounter = 1
    /\ lastSend.outcome = "failed"
    /\ lastSend.results = <<"fail", "fail">>
    /\ sending = << >>

=============================================================================
